---- MODULE Spec2Model ----
(***************************************************************************)
(* Prompt Replay: event capture (logPrompt), the event log, and the        *)
(* restore / undo handlers, modelled from the TypeScript sources.          *)
(*                                                                         *)
(* The repository holds several revisions of the extension host code.      *)
(* The handlers that differ are modelled side by side, each under the      *)
(* name of the file it comes from:                                         *)
(*   "ext"      src/src/extension.ts   handleRestoreEvent                  *)
(*   "extFile"  src/src/extension.ts   handleRestoreFile                   *)
(*   "p003"     src/unnamed/part_003   inline restoreEvent handler         *)
(*              (the revision compiled to src/out/extension.js)            *)
(*   "p002"     src/unnamed/part_002   handleRestoreEvent                  *)
(*   "p002File" src/unnamed/part_002   handleRestoreFile                   *)
(* logPrompt of extension.ts / part_002 / part_003 is one and the same     *)
(* code (LogPrompt); logPrompt of part_001 differs (LogPromptP001).        *)
(***************************************************************************)
EXTENDS Integers, Sequences, FiniteSets, TLC

(* ------------------------------ bounds -------------------------------- *)

\* number of events logPrompt may build in one behaviour
MaxBuilds == 1
\* retention limit handed to appendEvent (configuration maxEvents, scaled)
MaxEventsCfg == 2
\* longest change list the version-control collaborator reports
MaxDiffs == 2
\* number of restores (backup directories) in one behaviour
MaxRestores == 1
\* number of injected I/O failures in one behaviour
MaxFaults == 1
\* number of foreign changes of the working tree while one restore handler
\* is suspended
MaxInterference == 0
\* number of events logPrompt may build in one behaviour of the store and
\* capture specifications
MaxStoreBuilds == 3
\* number of events logPrompt may build in one behaviour of the trash
\* specification
MaxTrashBuilds == 2
\* number of events logPrompt may build in one behaviour of the capture
\* specification
MaxCaptureBuilds == 1

(* ------------------------- files and contents ------------------------- *)

Paths == {"a", "b"}

\* file contents are byte strings
EmptyBytes == << >>
AsciiBytes == << 65 >>
BinaryBytes == << 255 >>
\* what an edit may write to a path
UserContents(p) == IF p = "a" THEN {EmptyBytes, BinaryBytes} ELSE {EmptyBytes}

\* state of one path of a file system: present with bytes, or absent
File(c) == [ex |-> TRUE, bytes |-> c]
Absent == [ex |-> FALSE, bytes |-> << >>]

\* U+FFFD, what a UTF-8 decoder yields for an invalid byte
ReplacementChar == 65533

\* Buffer -> string, as child_process.execFile decodes stdout (encoding utf8)
RECURSIVE Utf8Decode(_)
Utf8Decode(b) ==
  IF b = << >> THEN << >>
  ELSE IF b[1] < 128 THEN << b[1] >> \o Utf8Decode(Tail(b))
  ELSE IF Len(b) >= 3 /\ b[1] = 239 /\ b[2] = 191 /\ b[3] = 189
       THEN << ReplacementChar >> \o Utf8Decode(SubSeq(b, 4, Len(b)))
  ELSE << ReplacementChar >> \o Utf8Decode(Tail(b))

\* string -> Buffer, Buffer.from(text, 'utf8')
RECURSIVE Utf8Encode(_)
Utf8Encode(s) ==
  IF s = << >> THEN << >>
  ELSE IF s[1] < 128 THEN << s[1] >> \o Utf8Encode(Tail(s))
  ELSE << 239, 191, 189 >> \o Utf8Encode(Tail(s))

(* ----------------------------- locations ------------------------------ *)

\* a snapshot file <repoRoot>/.promptreplay/snapshots/<id>/<sub>/<path>
SnapLoc(id, sub, p) ==
  [scheme |-> "file", area |-> "snap", id |-> id, sub |-> sub, path |-> p]
\* a working-tree file <repoRoot>/<path>, as the diff adapter reports it
WorkLoc(p) ==
  [scheme |-> "file", area |-> "work", id |-> 0, sub |-> "", path |-> p]
\* a diffUris entry without that side
NoLoc ==
  [scheme |-> "", area |-> "none", id |-> 0, sub |-> "", path |-> ""]

SnapSubs == {"", "__before__", "__after__"}
\* the ids logPrompt may hand out (randomUUID), in the order it does
EventIds == 1..(IF MaxBuilds > MaxStoreBuilds THEN MaxBuilds ELSE MaxStoreBuilds)
SnapKeys == EventIds \X SnapSubs \X Paths

VARIABLES
  hasCommit,   \* repo.state.HEAD.commit is defined
  head,        \* committed tree of HEAD: path -> file state
  disk,        \* working tree: path -> file state
  session,     \* Store.session
  touched,     \* touchedSinceCheckpoint
  cpTree,      \* (history) the tree the pending checkpoint stands for
  log,         \* events.jsonl, oldest first
  snapFiles,   \* files under .promptreplay/snapshots
  nextId,      \* next fresh event id (randomUUID)
  backups,     \* directories under .promptreplay/restore_backups
  rs,          \* the restore handler in progress
  faults,      \* injected I/O failures so far
  store,       \* trash index, summaries, exports, trash area, timeline view
  last         \* (history) the latest capture or store operation

vars == << hasCommit, head, disk, session, touched, cpTree, log, snapFiles,
           nextId, backups, rs, faults, store, last >>

(* ------------------------------- git.ts ------------------------------- *)

\* git show <ref>:<relPath>; undefined when git cannot resolve it.  A
\* synthetic ":working:<ts>" token is no revision, so git resolves nothing.
getFileAtRef(ref, p) ==
  IF ref = "sha" /\ head[p].ex
  THEN [ok |-> TRUE, text |-> Utf8Decode(head[p].bytes)]
  ELSE [ok |-> FALSE, text |-> << >>]

\* paths the version-control extension lists as changed
ChangedPaths ==
  IF hasCommit THEN {p \in Paths : disk[p] # head[p]}
  ELSE {p \in Paths : disk[p].ex}

RECURSIVE SeqsOver(_, _)
SeqsOver(S, n) ==
  IF n = 0 THEN {<< >>}
  ELSE LET shorter == SeqsOver(S, n - 1)
       IN shorter \cup {Append(s, x) : s \in {t \in shorter : Len(t) = n - 1}, x \in S}

Range(s) == {s[i] : i \in 1..Len(s)}
NoDup(s) == \A i, j \in 1..Len(s) : i # j => s[i] # s[j]

\* [...workingTreeChanges, ...indexChanges] mapped to paths: each list names
\* a path at most once, a path with staged and unstaged changes is in both
collectWorkingDiff ==
  {wt \o ix : wt, ix \in {s \in SeqsOver(ChangedPaths, MaxDiffs) : NoDup(s)}}
    \cap {s \in SeqsOver(ChangedPaths, MaxDiffs) : Range(s) = ChangedPaths}

(* ------------------------------ store.ts ------------------------------ *)

\* a line of events.jsonl is the JSON of an event, or it is not JSON: the
\* beginning of a line whose write was cut short (no newline after it, so
\* it can only be the last line), or a whole line that does not parse
TornLine == [torn |-> "partial"]
GarbledLine == [torn |-> "whole"]
parses(line) == line # TornLine /\ line # GarbledLine

\* old content + JSON.stringify(ev) + '\n', split at newlines: after a line
\* without newline the new JSON is part of that same line
joinLines(lines, ev) ==
  IF lines # << >> /\ lines[Len(lines)] = TornLine
  THEN Append(SubSeq(lines, 1, Len(lines) - 1), GarbledLine)
  ELSE Append(lines, ev)

\* appendEvent that trims at the wrong end of the log
appendEventKeepsOldest(lines, ev, maxEvents) ==
  LET all == joinLines(lines, ev)
  IN IF Len(all) > maxEvents THEN SubSeq(all, 1, maxEvents) ELSE all

\* Store.appendEvent: append one line, keep the newest maxEvents lines
appendEvent(lines, ev, maxEvents) ==
  LET all == joinLines(lines, ev)
  IN IF Len(all) > maxEvents
     THEN SubSeq(all, Len(all) - maxEvents + 1, Len(all))
     ELSE all

\* Store.readEvents: lines.map(l => JSON.parse(l)) inside try, [] in catch
readEvents(lines) ==
  IF \A i \in 1..Len(lines) : parses(lines[i]) THEN lines ELSE << >>

\* Store.readEvents, then all.find(e => e.id === id)
LogIds == {readEvents(log)[i].id : i \in 1..Len(readEvents(log))}
findEvent(id) ==
  LET all == readEvents(log)
  IN all[CHOOSE i \in 1..Len(all) : all[i].id = id /\ \A j \in 1..(i - 1) : all[j].id # id]

(* ------------------------------- Init --------------------------------- *)

NoSession == [active |-> FALSE, repoRoot |-> FALSE, cp |-> "none"]

\* the committed trees explored: a binary file and a path not yet present;
\* an empty file and a text file
HeadTrees ==
  {[p \in Paths |-> IF p = "a" THEN File(BinaryBytes) ELSE Absent],
   [p \in Paths |-> IF p = "a" THEN File(EmptyBytes) ELSE File(AsciiBytes)]}

EmptyTree == [p \in Paths |-> Absent]
UntrackedTree == [p \in Paths |-> IF p = "a" THEN File(BinaryBytes) ELSE Absent]

IdleRS == [pc |-> "idle"]

\* no trashIndex.json, no summaries, no exports, the timeline panel not yet
\* given any events; purged is history: the ids whose line
\* deleteEventPermanent has taken out of events.jsonl
EmptyStore ==
  [trash |-> {}, summaries |-> {}, exports |-> {},
   mode |-> "active", view |-> << >>, purged |-> {}]

NoOp == [op |-> "none"]

Init ==
  /\ hasCommit \in BOOLEAN
  /\ head \in (IF hasCommit THEN HeadTrees ELSE {EmptyTree})
  /\ disk = (IF hasCommit THEN head ELSE UntrackedTree)
  /\ session = NoSession
  /\ touched = {}
  /\ cpTree = EmptyTree
  /\ log = << >>
  /\ snapFiles = [k \in SnapKeys |-> Absent]
  /\ nextId = 1
  /\ backups = << >>
  /\ rs = IdleRS
  /\ faults = 0
  /\ store = EmptyStore
  /\ last = NoOp

(* ----------------- the user and other tools edit files ---------------- *)

\* a behaviour is explored until its last restore has returned
Horizon == Len(backups) < MaxRestores

\* the working tree is shared: while a restore handler is suspended (after
\* the backup loop, and at the summary that offers Undo) the working tree
\* may change under it, and the handler's record notes that it did
CanEdit ==
  IF rs.pc = "idle" THEN Horizon
  ELSE rs.pc \in {"manifest", "summary"} /\ rs.interference < MaxInterference
NoteEdit == IF rs.pc = "idle" THEN rs ELSE [rs EXCEPT !.interference = @ + 1]

editListenerAlways(p, scheme) == touched \cup {p}

\* editListener: the touched set after a change of the document of path p
editListener(p, scheme) ==
  IF session.cp = "none" THEN touched
  ELSE IF scheme # "file" THEN touched
  ELSE touched \cup {p}

\* a text document of scheme file changes (and is saved)
editDocumentRun(p, c) ==
  /\ CanEdit
  /\ disk[p] # File(c)
  /\ disk' = [disk EXCEPT ![p] = File(c)]
  /\ touched' = editListener(p, "file")
  /\ rs' = NoteEdit
  /\ UNCHANGED << store, hasCommit, head, session, cpTree, log, snapFiles, nextId,
                  backups, faults >>

EditDocument(p, c) == editDocumentRun(p, c) /\ UNCHANGED last

\* a file is written or removed without a text-document change event
ExternalChange(p, f) ==
  /\ CanEdit
  /\ disk[p] # f
  /\ disk' = [disk EXCEPT ![p] = f]
  /\ rs' = NoteEdit
  /\ UNCHANGED << store, last, hasCommit, head, session, touched, cpTree, log, snapFiles,
                  nextId, backups, faults >>

(* ------------------------- session commands --------------------------- *)

startSession ==
  /\ rs.pc = "idle"
  /\ session' = [active |-> TRUE, repoRoot |-> TRUE, cp |-> "none"]
  /\ UNCHANGED << store, last, hasCommit, head, disk, touched, cpTree, log, snapFiles,
                  nextId, backups, rs, faults >>

\* headSha(repo) ?? `:working:${Date.now()}`
checkpointToken == IF hasCommit THEN "sha" ELSE "working"

clearTouchedKeeps == touched

\* touchedSinceCheckpoint.clear()
clearTouched == {}

createCheckpointRun ==
  /\ rs.pc = "idle"
  /\ session' = [active |-> TRUE, repoRoot |-> TRUE, cp |-> checkpointToken]
  /\ touched' = clearTouched
  /\ cpTree' = (IF hasCommit THEN head ELSE disk)
  /\ UNCHANGED << store, hasCommit, head, disk, log, snapFiles, nextId, backups, rs,
                  faults >>

createCheckpoint == createCheckpointRun /\ UNCHANGED last

(* ----------------------------- logPrompt ------------------------------ *)

Undefined == [ok |-> FALSE, text |-> << >>]

filterTouchedKeepsAll(diffs) == diffs

\* diffs.filter(d => touched.has(d.path))
filterTouched(diffs) == SelectSeq(diffs, LAMBDA p : p \in touched)

\* the change list logPrompt goes on with, << >> when there is nothing to log
diffsToLog(diffs) == IF session.cp # "none" THEN filterTouched(diffs) ELSE diffs

leftTextOf(p) == IF session.cp # "none" THEN getFileAtRef(session.cp, p) ELSE Undefined

\* ops[rel]
classify(p) ==
  IF disk[p].ex
  THEN (IF leftTextOf(p).ok THEN "modified" ELSE "added")
  ELSE "deleted"

\* bytes written to the __before__ snapshot of p
leftSnapBytes(p) ==
  IF leftTextOf(p).ok THEN Utf8Encode(leftTextOf(p).text) ELSE EmptyBytes

\* an after snapshot that is created but never filled
rightSnapBytesEmpty(p) == EmptyBytes

\* bytes written to the __after__ snapshot of p
rightSnapBytes(p) == IF disk[p].ex THEN disk[p].bytes ELSE EmptyBytes

buildDiffUrisOncePerPath(id, diffs) ==
  LET firsts == SelectSeq([i \in 1..Len(diffs) |-> i],
                          LAMBDA i : \A j \in 1..(i - 1) : diffs[j] # diffs[i])
  IN [n \in 1..Len(firsts) |->
        [path |-> diffs[firsts[n]],
         left |-> SnapLoc(id, "__before__", diffs[firsts[n]]),
         right |-> SnapLoc(id, "__after__", diffs[firsts[n]]),
         op |-> classify(diffs[firsts[n]])]]

\* ev.diffUris = diffs.map(d => ({path, left, right, op}))
buildDiffUris(id, diffs) ==
  [i \in 1..Len(diffs) |->
     [path |-> diffs[i],
      left |-> SnapLoc(id, "__before__", diffs[i]),
      right |-> SnapLoc(id, "__after__", diffs[i]),
      op |-> classify(diffs[i])]]

writeSnapshots(id, diffs) ==
  [k \in SnapKeys |->
     IF k[1] = id /\ k[3] \in Range(diffs) /\ k[2] = "__before__"
     THEN File(leftSnapBytes(k[3]))
     ELSE IF k[1] = id /\ k[3] \in Range(diffs) /\ k[2] = "__after__"
     THEN File(rightSnapBytes(k[3]))
     ELSE snapFiles[k]]

\* (history) a tree as it was when the event was built, on the event's paths
historyOf(tree, diffs) == [p \in Paths |-> IF p \in Range(diffs) THEN tree[p] ELSE Absent]

\* logPrompt of extension.ts (the same code in part_002 and part_003), every
\* file-system call succeeding
buildEvent(diffs) ==
  [id |-> nextId, beforeRef |-> session.cp,
   filesChanged |-> diffs,
   diffUris |-> buildDiffUris(nextId, diffs),
   builder |-> "ext",
   cpAt |-> historyOf(cpTree, diffs),
   diskAt |-> historyOf(disk, diffs)]

clearCheckpointKeeps(s) == s

\* store.session = { ...store.session, lastCheckpointSha: undefined }
clearCheckpoint(s) == [s EXCEPT !.cp = "none"]

logPromptRunAlways(changes, maxEvents) ==
  LET diffs == diffsToLog(changes)
  IN /\ touched' = {}
     /\ session' = clearCheckpoint(session)
     /\ cpTree' = EmptyTree
     /\ IF diffs = << >>
        THEN UNCHANGED << log, snapFiles, nextId >>
        ELSE /\ snapFiles' = writeSnapshots(nextId, diffs)
             /\ log' = appendEvent(log, buildEvent(diffs), maxEvents)
             /\ nextId' = nextId + 1

logPromptRun(changes, maxEvents) ==
  LET diffs == diffsToLog(changes)
     IN IF diffs = << >>
        THEN UNCHANGED << session, touched, cpTree, log, snapFiles, nextId >>
        ELSE /\ snapFiles' = writeSnapshots(nextId, diffs)
             /\ log' = appendEvent(log, buildEvent(diffs), maxEvents)
             /\ touched' = {}
             /\ session' = clearCheckpoint(session)
             /\ cpTree' = EmptyTree
             /\ nextId' = nextId + 1

LogPrompt(changes) ==
  /\ rs.pc = "idle"
  /\ Horizon
  /\ nextId <= MaxBuilds
  /\ logPromptRun(changes, MaxEventsCfg)
  /\ UNCHANGED << store, last, hasCommit, head, disk, backups, rs, faults >>

\* part_001: left snapshot directly under snapshots/<id>/, written only
\* when a checkpoint is pending; right snapshot only for a deleted file;
\* every other side keeps the diff adapter's location; no op is recorded
buildDiffUrisP001(id, diffs) ==
  [i \in 1..Len(diffs) |->
     [path |-> diffs[i],
      left |-> IF session.cp # "none" THEN SnapLoc(id, "", diffs[i])
               ELSE WorkLoc(diffs[i]),
      right |-> IF session.cp # "none" /\ ~disk[diffs[i]].ex
                THEN SnapLoc(id, "__after__", diffs[i])
                ELSE WorkLoc(diffs[i]),
      op |-> "none"]]

writeSnapshotsP001(id, diffs) ==
  [k \in SnapKeys |->
     IF session.cp # "none" /\ k[1] = id /\ k[3] \in Range(diffs) /\ k[2] = ""
     THEN File(leftSnapBytes(k[3]))
     ELSE IF session.cp # "none" /\ k[1] = id /\ k[3] \in Range(diffs)
             /\ k[2] = "__after__" /\ ~disk[k[3]].ex
     THEN File(EmptyBytes)
     ELSE snapFiles[k]]

LogPromptP001(changes) ==
  /\ rs.pc = "idle"
  /\ Horizon
  /\ nextId <= MaxBuilds
  /\ LET diffs == diffsToLog(changes)
     IN IF diffs = << >>
        THEN UNCHANGED << session, touched, cpTree, log, snapFiles, nextId >>
        ELSE /\ snapFiles' = writeSnapshotsP001(nextId, diffs)
             /\ log' = appendEvent(log,
                         [id |-> nextId, beforeRef |-> session.cp,
                          filesChanged |-> diffs,
                          diffUris |-> buildDiffUrisP001(nextId, diffs),
                          builder |-> "p001",
                          cpAt |-> historyOf(cpTree, diffs),
                          diskAt |-> historyOf(disk, diffs)],
                         MaxEventsCfg)
             /\ touched' = {}
             /\ session' = [session EXCEPT !.cp = "none"]
             /\ cpTree' = EmptyTree
             /\ nextId' = nextId + 1
  /\ UNCHANGED << store, last, hasCommit, head, disk, backups, rs, faults >>

(* --------------------------- restore: entry --------------------------- *)

Impls == {"ext", "extFile", "p003", "p002", "p002File"}
\* message.id: an id logPrompt has handed out, or one it never has
ReqIds == 1..(MaxBuilds + 1)
FileImpls == {"extFile", "p002File"}
ReqSides == {"before", "after"}

\* the side the handler works with.  extension.ts: the dispatcher passes
\* { ...message, side: 'after' } and the handlers only know the after side.
\* part_002 / part_003: message.side, 'after' unless it is 'before'.
effectiveSide(impl, reqSide) ==
  IF impl \in {"ext", "extFile"} THEN "after"
  ELSE IF reqSide = "before" THEN "before" ELSE "after"

\* for (const d of ev.diffUris) / (ev.diffUris).find(d => d.path === rel)
\* a single-file restore that goes through the whole event
entriesForWholeEvent(ev, impl, path) ==
  IF impl \in FileImpls /\ SelectSeq(ev.diffUris, LAMBDA d : d.path = path) = << >>
  THEN << >>
  ELSE ev.diffUris

entriesFor(ev, impl, path) ==
  IF impl \in FileImpls
  THEN LET hits == SelectSeq(ev.diffUris, LAMBDA d : d.path = path)
       IN IF hits = << >> THEN << >> ELSE << hits[1] >>
  ELSE ev.diffUris

EmptyBackupDir ==
  [files |-> [p \in Paths |-> Absent],
   manifest |-> [written |-> FALSE, entries |-> << >>]]

\* the record of a handler invocation.  msg is the message it shows; pre,
\* acts, mutated, backupFailed, ioFailed and interference are history, read
\* by the properties only
NewRS(impl, id, reqSide, targets, pc, outcome, msg) ==
  [pc |-> pc, impl |-> impl, id |-> id,
   side |-> effectiveSide(impl, reqSide), reqSide |-> reqSide,
   targets |-> targets, i |-> 1,
   manifest |-> << >>, bk |-> Len(backups) + 1,
   restored |-> 0, deleted |-> 0, skipped |-> 0, errors |-> 0,
   uRestored |-> 0, uDeleted |-> 0, uErrors |-> 0,
   outcome |-> outcome, msg |-> msg,
   pre |-> disk, acts |-> << >>, mutated |-> FALSE,
   backupFailed |-> FALSE, ioFailed |-> FALSE, interference |-> 0]

\* the backup directory is created before the event is looked up
RestoreNotFoundAfterBackupDir(impl, id) ==
  /\ rs.pc = "idle"
  /\ Horizon
  /\ id \notin LogIds
  /\ rs' = NewRS(impl, id, "after", << >>, "done", "notFound", "Event not found.")
  /\ backups' = Append(backups, EmptyBackupDir)
  /\ UNCHANGED << store, last, hasCommit, head, disk, session, touched, cpTree, log,
                  snapFiles, nextId, faults >>

\* the event id is not in the log
RestoreNotFound(impl, id) ==
  /\ rs.pc = "idle"
  /\ Horizon
  /\ id \notin LogIds
  /\ rs' = NewRS(impl, id, "after", << >>, "done", "notFound", "Event not found.")
  /\ UNCHANGED << store, last, hasCommit, head, disk, session, touched, cpTree, log,
                  snapFiles, nextId, backups, faults >>

\* handleRestoreFile: the path is no diffUris entry of the event
RestoreFileNotPart(impl, id, path) ==
  /\ rs.pc = "idle"
  /\ Horizon
  /\ impl \in FileImpls
  /\ id \in LogIds
  /\ entriesFor(findEvent(id), impl, path) = << >>
  /\ rs' = NewRS(impl, id, "after", << >>, "done", "notPart", "File not part of this event.")
  /\ UNCHANGED << store, last, hasCommit, head, disk, session, touched, cpTree, log,
                  snapFiles, nextId, backups, faults >>

\* the backup directory is created before the confirmation is asked for
RestoreDeclinedAfterBackupDir(impl, id, path) ==
  /\ rs.pc = "idle"
  /\ Horizon
  /\ id \in LogIds
  /\ impl \in FileImpls => entriesFor(findEvent(id), impl, path) # << >>
  /\ rs' = NewRS(impl, id, "after", << >>, "done", "declined", "")
  /\ backups' = Append(backups, EmptyBackupDir)
  /\ UNCHANGED << store, last, hasCommit, head, disk, session, touched, cpTree, log,
                  snapFiles, nextId, faults >>

\* the modal confirmation is answered with anything but 'Restore'
RestoreDeclined(impl, id, path) ==
  /\ rs.pc = "idle"
  /\ Horizon
  /\ id \in LogIds
  /\ impl \in FileImpls => entriesFor(findEvent(id), impl, path) # << >>
  /\ rs' = NewRS(impl, id, "after", << >>, "done", "declined", "")
  /\ UNCHANGED << store, last, hasCommit, head, disk, session, touched, cpTree, log,
                  snapFiles, nextId, backups, faults >>

\* confirmed: the backup directory is created and the backup loop starts
RestoreBegin(impl, id, reqSide, path) ==
  /\ rs.pc = "idle"
  /\ Horizon
  /\ id \in LogIds
  /\ LET targets == entriesFor(findEvent(id), impl, path)
     IN /\ impl \in FileImpls => targets # << >>
        /\ rs' = NewRS(impl, id, reqSide, targets,
                       IF targets = << >> THEN "manifest" ELSE "backup",
                       "running", "")
  /\ backups' = Append(backups, EmptyBackupDir)
  /\ UNCHANGED << store, last, hasCommit, head, disk, session, touched, cpTree, log,
                  snapFiles, nextId, faults >>

(* ------------------------ restore: backup phase ----------------------- *)

\* part_003 wraps the body of the backup loop in try/catch; extension.ts
\* and part_002 do not, there a failure leaves the handler
backupCatches(impl) == impl = "p003"

CanFail == faults < MaxFaults

NextBackupPc(r) == IF r.i >= Len(r.targets) THEN "manifest" ELSE "backup"

\* one iteration of the backup loop, all calls succeeding
BackupStep ==
  /\ rs.pc = "backup"
  /\ LET d == rs.targets[rs.i]
         existed == disk[d.path].ex
     IN /\ backups' = IF existed
                      THEN [backups EXCEPT ![rs.bk].files[d.path] = disk[d.path]]
                      ELSE backups
        /\ rs' = [rs EXCEPT !.manifest = Append(@, [path |-> d.path, existed |-> existed]),
                            !.i = IF NextBackupPc(rs) = "manifest" THEN 1 ELSE @ + 1,
                            !.pc = NextBackupPc(rs)]
  /\ UNCHANGED << store, last, hasCommit, head, disk, session, touched, cpTree, log,
                  snapFiles, nextId, faults >>

\* one iteration of the backup loop: readFile(target) or the write of the
\* backup copy fails, after entry.existed was set
BackupStepFails ==
  /\ rs.pc = "backup"
  /\ CanFail
  /\ disk[rs.targets[rs.i].path].ex
  /\ faults' = faults + 1
  /\ IF backupCatches(rs.impl)
     THEN rs' = [rs EXCEPT !.manifest = Append(@, [path |-> rs.targets[rs.i].path, existed |-> TRUE]),
                           !.i = IF NextBackupPc(rs) = "manifest" THEN 1 ELSE @ + 1,
                           !.pc = NextBackupPc(rs),
                           !.backupFailed = TRUE, !.ioFailed = TRUE]
     ELSE rs' = [rs EXCEPT !.pc = "done", !.outcome = "aborted",
                           !.msg = "action failed",
                           !.backupFailed = TRUE, !.ioFailed = TRUE]
  /\ UNCHANGED << store, last, hasCommit, head, disk, session, touched, cpTree, log,
                  snapFiles, nextId, backups >>

\* writeFile(manifestUri, JSON.stringify(manifest))
ManifestStep ==
  /\ rs.pc = "manifest"
  /\ backups' = [backups EXCEPT ![rs.bk].manifest = [written |-> TRUE, entries |-> rs.manifest]]
  /\ rs' = [rs EXCEPT !.pc = IF rs.targets = << >> THEN "summary" ELSE "apply", !.i = 1]
  /\ UNCHANGED << store, last, hasCommit, head, disk, session, touched, cpTree, log,
                  snapFiles, nextId, faults >>

\* the manifest write fails: no handler catches it
ManifestStepFails ==
  /\ rs.pc = "manifest"
  /\ CanFail
  /\ faults' = faults + 1
  /\ rs' = [rs EXCEPT !.pc = "done", !.outcome = "aborted",
                      !.msg = "action failed", !.ioFailed = TRUE]
  /\ UNCHANGED << store, last, hasCommit, head, disk, session, touched, cpTree, log,
                  snapFiles, nextId, backups >>

(* ------------------------ restore: apply phase ------------------------ *)

\* rightUri.scheme === 'file' && rightUri.fsPath.startsWith(expectedBase),
\* expectedBase = <root>/.promptreplay/snapshots/<id>.  Event ids are UUIDs
\* of one length, so the prefix test on the id component is equality.
trustedSnapshot(loc, id) ==
  /\ loc.area # "none"
  /\ loc.scheme = "file"
  /\ loc.area = "snap"
  /\ loc.id = id

\* the apply loop without its op === 'deleted' branch
applyDecisionExtNoDelete(d, side, id) ==
  IF ~trustedSnapshot(d.right, id) THEN [act |-> "skip", from |-> NoLoc]
  ELSE [act |-> "write", from |-> d.right]

\* what one iteration of the apply loop sets out to do with entry d
\* extension.ts handleRestoreEvent / handleRestoreFile
applyDecisionExt(d, side, id) ==
  IF d.op = "deleted" THEN [act |-> "delete", from |-> NoLoc]
  ELSE IF ~trustedSnapshot(d.right, id) THEN [act |-> "skip", from |-> NoLoc]
  ELSE [act |-> "write", from |-> d.right]

\* part_003 restoreEvent handler
applyDecisionP003(d, side, id) ==
  LET shouldDelete == IF side = "after" THEN d.op = "deleted" ELSE d.op = "added"
      snapshotToWrite == IF shouldDelete THEN NoLoc
                         ELSE IF side = "after" THEN d.right ELSE d.left
  IN IF ~shouldDelete /\ ~trustedSnapshot(snapshotToWrite, id)
     THEN [act |-> "skip", from |-> NoLoc]
     ELSE IF shouldDelete THEN [act |-> "delete", from |-> NoLoc]
     ELSE [act |-> "write", from |-> snapshotToWrite]

\* part_002 handleRestoreEvent / handleRestoreFile: readBytesFlexible reads
\* whatever location the entry records
applyDecisionP002(d, side, id) ==
  IF side = "after"
  THEN (IF d.op = "deleted" THEN [act |-> "delete", from |-> NoLoc]
        ELSE [act |-> "write", from |-> d.right])
  ELSE (IF d.op = "added" THEN [act |-> "delete", from |-> NoLoc]
        ELSE [act |-> "write", from |-> d.left])

applyDecision(impl, d, side, id) ==
  IF impl \in {"ext", "extFile"} THEN applyDecisionExt(d, side, id)
  ELSE IF impl = "p003" THEN applyDecisionP003(d, side, id)
  ELSE applyDecisionP002(d, side, id)

\* workspace.fs.readFile of a recorded location
readLoc(loc) ==
  IF loc.area = "snap" THEN snapFiles[<< loc.id, loc.sub, loc.path >>]
  ELSE IF loc.area = "work" THEN disk[loc.path]
  ELSE Absent

\* an unreadable snapshot: readFile throws (errors++) in extension.ts and
\* part_003, readBytesFlexible returns undefined (skipped++) in part_002
unreadableKind(impl) == IF impl \in {"p002", "p002File"} THEN "skipped" ELSE "errors"

NextApplyPc(r) == IF r.i >= Len(r.targets) THEN "summary" ELSE "apply"

\* the outcome of one apply iteration; fault is the call that is made to
\* fail: "none", "read" (of the snapshot) or "write" (write or delete of
\* the target)
applyOutcome(r, fault) ==
  LET d == r.targets[r.i]
      dec == applyDecision(r.impl, d, r.side, r.id)
      src == readLoc(dec.from)
  IN IF dec.act = "skip" THEN [kind |-> "skipped", file |-> disk[d.path]]
     ELSE IF dec.act = "delete"
     THEN (IF fault = "write" \/ ~disk[d.path].ex
           THEN [kind |-> "skipped", file |-> disk[d.path]]
           ELSE [kind |-> "deleted", file |-> Absent])
     ELSE IF fault = "read" \/ ~src.ex
     THEN [kind |-> unreadableKind(r.impl), file |-> disk[d.path]]
     ELSE IF fault = "write" THEN [kind |-> "errors", file |-> disk[d.path]]
     ELSE [kind |-> "restored", file |-> File(src.bytes)]

applyEffectStops(fault) ==
  LET d == rs.targets[rs.i]
      dec == applyDecision(rs.impl, d, rs.side, rs.id)
      out == applyOutcome(rs, fault)
      next == IF fault # "none" THEN "summary" ELSE NextApplyPc(rs)
  IN /\ disk' = [disk EXCEPT ![d.path] = out.file]
     /\ rs' = [rs EXCEPT
                 !.restored = IF out.kind = "restored" THEN @ + 1 ELSE @,
                 !.deleted = IF out.kind = "deleted" THEN @ + 1 ELSE @,
                 !.skipped = IF out.kind = "skipped" THEN @ + 1 ELSE @,
                 !.errors = IF out.kind = "errors" THEN @ + 1 ELSE @,
                 !.acts = Append(@, [path |-> d.path, kind |-> out.kind,
                                     from |-> dec.from, op |-> d.op]),
                 !.mutated = @ \/ out.kind \in {"restored", "deleted"},
                 !.ioFailed = @ \/ fault # "none",
                 !.i = IF next = "summary" THEN 1 ELSE @ + 1,
                 !.msg = IF next = "summary" THEN "restore summary" ELSE @,
                 !.pc = next]

\* one iteration of the apply loop: the decision carried out or failing, the
\* counts updated, the loop going on to the next entry or to the summary
applyEffect(fault) ==
  LET d == rs.targets[rs.i]
      dec == applyDecision(rs.impl, d, rs.side, rs.id)
      out == applyOutcome(rs, fault)
  IN /\ disk' = [disk EXCEPT ![d.path] = out.file]
     /\ rs' = [rs EXCEPT
                 !.restored = IF out.kind = "restored" THEN @ + 1 ELSE @,
                 !.deleted = IF out.kind = "deleted" THEN @ + 1 ELSE @,
                 !.skipped = IF out.kind = "skipped" THEN @ + 1 ELSE @,
                 !.errors = IF out.kind = "errors" THEN @ + 1 ELSE @,
                 !.acts = Append(@, [path |-> d.path, kind |-> out.kind,
                                     from |-> dec.from, op |-> d.op]),
                 !.mutated = @ \/ out.kind \in {"restored", "deleted"},
                 !.ioFailed = @ \/ fault # "none",
                 !.i = IF NextApplyPc(rs) = "summary" THEN 1 ELSE @ + 1,
                 !.msg = IF NextApplyPc(rs) = "summary" THEN "restore summary" ELSE @,
                 !.pc = NextApplyPc(rs)]

\* one iteration of the apply loop, no injected failure
ApplyStep ==
  /\ rs.pc = "apply"
  /\ applyEffect("none")
  /\ UNCHANGED << store, last, hasCommit, head, session, touched, cpTree, log, snapFiles,
                  nextId, backups, faults >>

\* one iteration of the apply loop in which a file-system call fails
ApplyStepFails(fault) ==
  /\ rs.pc = "apply"
  /\ CanFail
  /\ LET dec == applyDecision(rs.impl, rs.targets[rs.i], rs.side, rs.id)
     IN \/ fault = "read" /\ dec.act = "write"
        \/ fault = "write" /\ dec.act \in {"write", "delete"}
  /\ faults' = faults + 1
  /\ applyEffect(fault)
  /\ UNCHANGED << store, last, hasCommit, head, session, touched, cpTree, log, snapFiles,
                  nextId, backups >>

(* ------------------------------- undo --------------------------------- *)

\* the summary is dismissed without Undo
Dismiss ==
  /\ rs.pc = "summary"
  /\ rs' = [rs EXCEPT !.pc = "done", !.outcome = "applied"]
  /\ UNCHANGED << store, last, hasCommit, head, disk, session, touched, cpTree, log,
                  snapFiles, nextId, backups, faults >>

\* Undo is chosen: the manifest is read back and parsed
UndoBegin ==
  /\ rs.pc = "summary"
  /\ backups[rs.bk].manifest.written
  /\ rs' = [rs EXCEPT !.pc = IF backups[rs.bk].manifest.entries = << >>
                             THEN "done" ELSE "undo",
                      !.outcome = IF backups[rs.bk].manifest.entries = << >>
                                  THEN "undone" ELSE @,
                      !.msg = IF backups[rs.bk].manifest.entries = << >>
                              THEN "undo complete" ELSE @,
                      !.i = 1]
  /\ UNCHANGED << store, last, hasCommit, head, disk, session, touched, cpTree, log,
                  snapFiles, nextId, backups, faults >>

\* Undo is chosen and reading the manifest fails
UndoBeginFails ==
  /\ rs.pc = "summary"
  /\ CanFail
  /\ faults' = faults + 1
  /\ rs' = [rs EXCEPT !.pc = "done", !.outcome = "undoFailed",
                      !.msg = "undo failed (could not read backup)",
                      !.ioFailed = TRUE]
  /\ UNCHANGED << store, last, hasCommit, head, disk, session, touched, cpTree, log,
                  snapFiles, nextId, backups >>

NextUndoPc(r) ==
  IF r.i >= Len(backups[r.bk].manifest.entries) THEN "done" ELSE "undo"

\* the undo loop without its delete branch: a path the restore created stays
undoOutcomeKeepsCreated(r, fails) ==
  LET entry == backups[r.bk].manifest.entries[r.i]
      backupFile == backups[r.bk].files[entry.path]
  IN IF fails THEN [kind |-> "uErrors", file |-> disk[entry.path]]
     ELSE IF entry.existed /\ backupFile.ex
     THEN [kind |-> "uRestored", file |-> File(backupFile.bytes)]
     ELSE [kind |-> "uErrors", file |-> disk[entry.path]]

\* the outcome of one iteration of the undo loop
undoOutcome(r, fails) ==
  LET entry == backups[r.bk].manifest.entries[r.i]
      backupFile == backups[r.bk].files[entry.path]
  IN IF fails THEN [kind |-> "uErrors", file |-> disk[entry.path]]
     ELSE IF entry.existed
     THEN (IF backupFile.ex
           THEN [kind |-> "uRestored", file |-> File(backupFile.bytes)]
           ELSE [kind |-> "uErrors", file |-> disk[entry.path]])
     ELSE (IF disk[entry.path].ex
           THEN [kind |-> "uDeleted", file |-> Absent]
           ELSE [kind |-> "uErrors", file |-> disk[entry.path]])

\* the undo loop with an empty catch block: a failed entry is not counted
undoEffectUncounted(fails) ==
  LET entry == backups[rs.bk].manifest.entries[rs.i]
      out == undoOutcome(rs, fails)
  IN /\ disk' = [disk EXCEPT ![entry.path] = out.file]
     /\ rs' = [rs EXCEPT
                 !.uRestored = IF out.kind = "uRestored" THEN @ + 1 ELSE @,
                 !.uDeleted = IF out.kind = "uDeleted" THEN @ + 1 ELSE @,
                 !.ioFailed = @ \/ fails,
                 !.i = @ + 1,
                 !.outcome = IF NextUndoPc(rs) = "done" THEN "undone" ELSE @,
                 !.msg = IF NextUndoPc(rs) = "done" THEN "undo complete" ELSE @,
                 !.pc = NextUndoPc(rs)]

undoEffect(fails) ==
  LET entry == backups[rs.bk].manifest.entries[rs.i]
      out == undoOutcome(rs, fails)
  IN /\ disk' = [disk EXCEPT ![entry.path] = out.file]
     /\ rs' = [rs EXCEPT
                 !.uRestored = IF out.kind = "uRestored" THEN @ + 1 ELSE @,
                 !.uDeleted = IF out.kind = "uDeleted" THEN @ + 1 ELSE @,
                 !.uErrors = IF out.kind = "uErrors" THEN @ + 1 ELSE @,
                 !.ioFailed = @ \/ fails,
                 !.i = @ + 1,
                 !.outcome = IF NextUndoPc(rs) = "done" THEN "undone" ELSE @,
                 !.msg = IF NextUndoPc(rs) = "done" THEN "undo complete" ELSE @,
                 !.pc = NextUndoPc(rs)]

UndoStep ==
  /\ rs.pc = "undo"
  /\ undoEffect(FALSE)
  /\ UNCHANGED << store, last, hasCommit, head, session, touched, cpTree, log, snapFiles,
                  nextId, backups, faults >>

UndoStepFails ==
  /\ rs.pc = "undo"
  /\ CanFail
  /\ faults' = faults + 1
  /\ undoEffect(TRUE)
  /\ UNCHANGED << store, last, hasCommit, head, session, touched, cpTree, log, snapFiles,
                  nextId, backups >>

\* the handler returns
Finish ==
  /\ rs.pc = "done"
  /\ rs' = IdleRS
  /\ UNCHANGED << store, last, hasCommit, head, disk, session, touched, cpTree, log,
                  snapFiles, nextId, backups, faults >>

(* ------------- part_001: restoreFile / restoreAll handler ------------- *)

\* msg.side === 'after' ? 'after' : 'before'
sideP001(reqSide) == IF reqSide = "after" THEN "after" ELSE "before"

\* msg.type === 'restoreFile' ? diffUris.filter(d => d.path === msg.path)
\*                             : diffUris
targetsP001(ev, type, path) ==
  IF type = "restoreFile" THEN SelectSeq(ev.diffUris, LAMBDA d : d.path = path)
  ELSE ev.diffUris

\* readUtf8 of a recorded location, the working tree being dsk
readLocIn(loc, dsk) ==
  IF loc.area = "snap" THEN snapFiles[<< loc.id, loc.sub, loc.path >>]
  ELSE IF loc.area = "work" THEN dsk[loc.path]
  ELSE Absent

\* rightUri.fsPath.includes('/__after__/')
isSyntheticAfter(loc) == loc.area = "snap" /\ loc.sub = "__after__"

\* one iteration of the loop over the targets: nothing when the snapshot
\* cannot be read; side before: delete when the snapshot is empty and the
\* event has a beforeRef, else write its text; side after: delete when the
\* snapshot is an empty file under __after__, else write its text
applyDecisionP001(ev, d, side, dsk) ==
  LET loc == IF side = "before" THEN d.left ELSE d.right
      src == readLocIn(loc, dsk)
  IN IF ~src.ex THEN [act |-> "skip", from |-> loc]
     ELSE IF side = "before"
     THEN (IF Len(src.bytes) = 0 /\ ev.beforeRef # "none"
           THEN [act |-> "delete", from |-> loc]
           ELSE [act |-> "write", from |-> loc])
     ELSE (IF isSyntheticAfter(loc) /\ Len(src.bytes) = 0
           THEN [act |-> "delete", from |-> loc]
           ELSE [act |-> "write", from |-> loc])

\* the loop: the working tree and (history) what was done to each target
RECURSIVE restoreLoopP001(_, _, _, _, _)
restoreLoopP001(ev, targets, side, dsk, acts) ==
  IF targets = << >> THEN [disk |-> dsk, acts |-> acts]
  ELSE LET d == Head(targets)
           dec == applyDecisionP001(ev, d, side, dsk)
           src == readLocIn(dec.from, dsk)
           file == IF dec.act = "skip" THEN dsk[d.path]
                   ELSE IF dec.act = "delete" THEN Absent
                   ELSE File(Utf8Encode(Utf8Decode(src.bytes)))
           kind == IF dec.act = "skip" THEN "skipped"
                   ELSE IF dec.act = "delete" THEN "deleted" ELSE "restored"
       IN restoreLoopP001(ev, Tail(targets), side,
                          [dsk EXCEPT ![d.path] = file],
                          Append(acts, [path |-> d.path, kind |-> kind,
                                        from |-> dec.from, op |-> d.op]))

\* message restoreFile / restoreAll of part_001: no confirmation, no backup,
\* the loop over the targets, then 'Restore complete.'
RestoreP001(id, type, reqSide, path) ==
  /\ rs.pc = "idle"
  /\ Horizon
  /\ id \in LogIds
  /\ LET ev == findEvent(id)
         targets == targetsP001(ev, type, path)
         run == restoreLoopP001(ev, targets, sideP001(reqSide), disk, << >>)
     IN /\ targets # << >>
        /\ disk' = run.disk
        /\ rs' = [NewRS("p001", id, reqSide, targets, "done", "complete",
                        "Restore complete.")
                    EXCEPT !.side = sideP001(reqSide),
                           !.acts = run.acts,
                           !.mutated = \E k \in 1..Len(run.acts) :
                                         run.acts[k].kind \in {"restored", "deleted"}]
  /\ UNCHANGED << store, last, hasCommit, head, session, touched, cpTree, log,
                  snapFiles, nextId, backups, faults >>

\* the same handler: the event is found and no diffUris entry has the path
RestoreP001NoTargets(id, path) ==
  /\ rs.pc = "idle"
  /\ Horizon
  /\ id \in LogIds
  /\ targetsP001(findEvent(id), "restoreFile", path) = << >>
  /\ rs' = NewRS("p001", id, "before", << >>, "done", "noTargets",
                 "No matching files to restore.")
  /\ UNCHANGED << store, last, hasCommit, head, disk, session, touched, cpTree, log,
                  snapFiles, nextId, backups, faults >>

(* -------------------------------- Next -------------------------------- *)

Next ==
  \/ \E p \in Paths : \E c \in UserContents(p) : EditDocument(p, c)
  \/ \E p \in Paths : \E f \in {Absent} \cup {File(c) : c \in UserContents(p)} : ExternalChange(p, f)
  \/ nextId <= MaxBuilds /\ startSession
  \/ nextId <= MaxBuilds /\ createCheckpoint
  \/ \E changes \in collectWorkingDiff : LogPrompt(changes)
  \/ \E changes \in collectWorkingDiff : LogPromptP001(changes)
  \/ \E impl \in Impls, id \in ReqIds : RestoreNotFound(impl, id)
  \/ \E impl \in Impls, id \in ReqIds, p \in Paths : RestoreFileNotPart(impl, id, p)
  \/ \E impl \in Impls, id \in ReqIds, p \in Paths : RestoreDeclined(impl, id, p)
  \/ \E impl \in Impls, id \in ReqIds, side \in ReqSides, p \in Paths :
       RestoreBegin(impl, id, side, p)
  \/ BackupStep
  \/ BackupStepFails
  \/ ManifestStep
  \/ ManifestStepFails
  \/ ApplyStep
  \/ \E fault \in {"read", "write"} : ApplyStepFails(fault)
  \/ Dismiss
  \/ UndoBegin
  \/ UndoBeginFails
  \/ UndoStep
  \/ UndoStepFails
  \/ Finish

Spec == Init /\ [][Next]_vars

(* ----------------------------- properties ----------------------------- *)

\* a restore handler is running or has just returned
InRestore == rs.pc # "idle"

\* the paths the running restore targets
TargetPaths == {rs.targets[k].path : k \in 1..Len(rs.targets)}

\* the event the running restore was asked for
RestoredEvent == findEvent(rs.id)

\* C1: in a whole-event restore, once a working-tree file has been written
\* or deleted by the apply loop, the backup manifest is written and every
\* target that existed when the restore began has its backup copy
C1_BackupBeforeMutation ==
  (InRestore /\ rs.impl \notin FileImpls /\ rs.mutated) =>
    /\ backups[rs.bk].manifest.written
    /\ \A p \in TargetPaths : rs.pre[p].ex => backups[rs.bk].files[p] = rs.pre[p]

\* C2: a restore in which no file-system call was made to fail and during
\* which nothing else changed the working tree, followed at once by Undo,
\* leaves every target path as it was before the restore
C2_UndoInvertsRestore ==
  (InRestore /\ rs.pc = "done" /\ rs.outcome = "undone"
     /\ ~rs.ioFailed /\ rs.interference = 0) =>
    \A p \in TargetPaths : disk[p] = rs.pre[p]

\* an undone restore that had overwritten an existing file and created a
\* file that did not exist
C2_Witness ==
  /\ InRestore /\ rs.pc = "done" /\ rs.outcome = "undone"
  /\ ~rs.ioFailed /\ rs.interference = 0
  /\ rs.uRestored > 0 /\ rs.uDeleted > 0
  /\ \E k \in 1..Len(rs.acts) :
        /\ rs.acts[k].kind = "restored"
        /\ rs.pre[rs.acts[k].path].ex
        /\ snapFiles[<< rs.id, "__after__", rs.acts[k].path >>] # rs.pre[rs.acts[k].path]

\* C3: when reading or copying a target fails in the backup loop, the
\* restore writes or deletes no working-tree file and ends aborted
C3_BackupFailureAborts ==
  (InRestore /\ rs.backupFailed) =>
    /\ ~rs.mutated
    /\ rs.pc = "done" => rs.outcome = "aborted"

\* no file-system call of the running restore was made to fail, and nothing
\* else changed the working tree while it ran
CleanRun == ~rs.ioFailed /\ rs.interference = 0

\* C4: in every event logPrompt built against a checkpoint reference, a
\* path present at the checkpoint and absent at log time is deleted, one
\* absent at the checkpoint and present at log time is added, one present
\* at both is modified
C4_Classification ==
  \A i \in 1..Len(log) :
    (log[i].builder = "ext" /\ log[i].beforeRef # "none") =>
      \A k \in 1..Len(log[i].diffUris) :
        LET d == log[i].diffUris[k]
            was == log[i].cpAt[d.path].ex
            is == log[i].diskAt[d.path].ex
        IN /\ (was /\ ~is) => d.op = "deleted"
           /\ (~was /\ is) => d.op = "added"
           /\ (was /\ is) => d.op = "modified"

\* C5: when the apply loop of a restore with side after has run (no call
\* made to fail, no foreign change meanwhile), every target whose op is not
\* deleted has the bytes it had on disk when logPrompt built the event
C5_AfterRoundTrip ==
  (InRestore /\ rs.pc = "summary" /\ rs.reqSide = "after"
     /\ RestoredEvent.builder = "ext" /\ CleanRun) =>
    \A k \in 1..Len(rs.targets) :
      rs.targets[k].op # "deleted" =>
        disk[rs.targets[k].path] = RestoredEvent.diskAt[rs.targets[k].path]

\* a restore with side after has brought a modified file, changed since the
\* event was built, back to its bytes at log time
C5_Witness ==
  /\ InRestore /\ rs.pc = "summary" /\ rs.reqSide = "after"
  /\ RestoredEvent.builder = "ext" /\ CleanRun
  /\ \E k \in 1..Len(rs.acts) :
        /\ rs.acts[k].kind = "restored"
        /\ rs.acts[k].op = "modified"
        /\ rs.pre[rs.acts[k].path] # disk[rs.acts[k].path]
        /\ disk[rs.acts[k].path].bytes = BinaryBytes

\* C6: a restore with side after writes no snapshot content to a target
\* whose op is deleted, and when its apply loop has run (no call made to
\* fail, no foreign change meanwhile) every such target is absent
C6_AfterDeletesDeleted ==
  (InRestore /\ rs.reqSide = "after") =>
    /\ \A k \in 1..Len(rs.acts) :
         rs.acts[k].op = "deleted" =>
           rs.acts[k].kind # "restored" /\ rs.acts[k].from = NoLoc
    /\ (rs.pc = "summary" /\ CleanRun) =>
         \A k \in 1..Len(rs.targets) :
           rs.targets[k].op = "deleted" => disk[rs.targets[k].path] = Absent

\* a restore with side after has deleted a file that existed again at a
\* path whose op is deleted
C6_Witness ==
  /\ InRestore /\ rs.pc = "summary" /\ rs.reqSide = "after" /\ CleanRun
  /\ \E k \in 1..Len(rs.acts) :
        /\ rs.acts[k].op = "deleted"
        /\ rs.acts[k].kind = "deleted"
        /\ rs.pre[rs.acts[k].path].ex
        /\ disk[rs.acts[k].path] = Absent

\* C7: a restore requested with side before sets out to delete every target
\* whose op is added and to write the before snapshot to every other
\* target; it never applies the after snapshot
C7_BeforeSemantics ==
  (InRestore /\ rs.reqSide = "before" /\ RestoredEvent.builder = "ext") =>
    \A k \in 1..Len(rs.acts) :
      LET a == rs.acts[k]
      IN /\ a.op = "added" => (a.kind \in {"deleted", "skipped"} /\ a.from = NoLoc)
         /\ a.op # "added" => a.from = SnapLoc(rs.id, "__before__", a.path)

\* C8: when the apply loop of a restore working with side before has run
\* on an event built against a checkpoint (no call made to fail, no
\* foreign change meanwhile), every target whose op is not added has the
\* content it had at the checkpoint
C8_BeforeRoundTrip ==
  (InRestore /\ rs.pc = "summary" /\ rs.side = "before"
     /\ RestoredEvent.builder = "ext" /\ RestoredEvent.beforeRef # "none"
     /\ CleanRun) =>
    \A k \in 1..Len(rs.targets) :
      rs.targets[k].op # "added" =>
        disk[rs.targets[k].path] = RestoredEvent.cpAt[rs.targets[k].path]

\* the location entry d records for the side a restore works with
recordedLoc(d, side) == IF side = "after" THEN d.right ELSE d.left

\* the restore removes the target of entry d instead of writing it
removes(d, side) ==
  IF side = "after" THEN d.op = "deleted" ELSE d.op = "added"

\* C9: a restore writes snapshot content to a target only from a location
\* inside the snapshot directory of the event being restored; a target
\* whose recorded location is anywhere else is counted as skipped
C9_TrustedSnapshotOnly ==
  InRestore =>
    \A k \in 1..Len(rs.acts) :
      /\ rs.acts[k].kind = "restored" => trustedSnapshot(rs.acts[k].from, rs.id)
      /\ (~removes(rs.targets[k], rs.side)
            /\ ~trustedSnapshot(recordedLoc(rs.targets[k], rs.side), rs.id)) =>
           rs.acts[k].kind = "skipped"

\* C10: a restore asked for an event id that is not in the log shows
\* "Event not found.", creates no backup directory and changes no
\* working-tree file
C10_NotFoundNoMutation ==
  (InRestore /\ rs.id \notin LogIds) =>
    /\ rs.outcome = "notFound"
    /\ rs.msg = "Event not found."
    /\ Len(backups) < rs.bk
    /\ disk = rs.pre
    /\ ~rs.mutated

\* a single-file restore was asked for an id that is not among the events
\* of a log that is not empty
C10_Witness ==
  /\ InRestore /\ rs.id \notin LogIds
  /\ log # << >>
  /\ rs.impl = "extFile"
  /\ rs.outcome = "notFound"

(* ------------------- the event store, on its own --------------------- *)

\* The store is explored in a repository without commits whose working tree
\* never changes: every logPrompt runs without checkpoint and logs the one
\* untracked file.
InitStore == Init /\ ~hasCommit

\* cfg.get('maxEvents'), read anew by every logPrompt
MaxEventsValues == 1..MaxEventsCfg

\* logPrompt, with the log it found and the event it built kept as history
StoreLogPrompt(changes, maxEvents) ==
  /\ diffsToLog(changes) # << >>
  /\ logPromptRun(changes, maxEvents)
  /\ last' = [op |-> "logPrompt", preLog |-> log, maxEvents |-> maxEvents,
              ev |-> buildEvent(diffsToLog(changes))]
  /\ UNCHANGED << store, hasCommit, head, disk, backups, rs, faults >>

\* logPrompt whose write of events.jsonl is cut short inside the new line
\* (the extension host dies): the snapshots are written, the in-memory
\* touched set is gone, the persisted session is as it was
StoreLogPromptTorn(changes) ==
  /\ CanFail
  /\ diffsToLog(changes) # << >>
  /\ snapFiles' = writeSnapshots(nextId, diffsToLog(changes))
  /\ log' = IF log # << >> /\ log[Len(log)] = TornLine THEN log
            ELSE Append(log, TornLine)
  /\ nextId' = nextId + 1
  /\ touched' = {}
  /\ faults' = faults + 1
  /\ last' = [op |-> "tornWrite"]
  /\ UNCHANGED << store, hasCommit, head, disk, session, cpTree, backups, rs >>

\* the change lists of the trash behaviours: every changed path once
TrashChanges == {s \in collectWorkingDiff : NoDup(s)}

\* the ids the timeline panel can send: those logPrompt has handed out
KnownIds == 1..(nextId - 1)

\* (history) what a store operation found
StoreState == [log |-> log, snap |-> snapFiles, store |-> store]

\* part_001 refresh: the events the panel is given, by id
refreshView(lines, trash, mode) ==
  LET all == readEvents(lines)
      shown == SelectSeq(all, LAMBDA e :
                 IF mode = "trash" THEN e.id \in trash ELSE e.id \notin trash)
  IN [i \in 1..Len(shown) |-> shown[i].id]

\* message switchMode
SwitchMode(mode) ==
  /\ mode # store.mode
  /\ store' = [store EXCEPT !.mode = mode,
                            !.view = refreshView(log, store.trash, mode)]
  /\ last' = [op |-> "switchMode"]
  /\ UNCHANGED << hasCommit, head, disk, session, touched, cpTree, log,
                  snapFiles, nextId, backups, rs, faults >>

\* message summarize: the event is found and Store.writeSummary stores the
\* language model's summary
Summarize(id) ==
  /\ id \in LogIds
  /\ store' = [store EXCEPT !.summaries = @ \cup {id},
                            !.view = refreshView(log, store.trash, store.mode)]
  /\ last' = [op |-> "summarize"]
  /\ UNCHANGED << hasCommit, head, disk, session, touched, cpTree, log,
                  snapFiles, nextId, backups, rs, faults >>

\* exportEventMarkdown: exports/event-<id>.md is written
ExportEvent(id) ==
  /\ id \in LogIds
  /\ store' = [store EXCEPT !.exports = @ \cup {id}]
  /\ last' = [op |-> "export"]
  /\ UNCHANGED << hasCommit, head, disk, session, touched, cpTree, log,
                  snapFiles, nextId, backups, rs, faults >>

\* Store.trashEvent: ids.add(id), the index written back
trashIds(ids, id) == ids \cup {id}

untrashIdsKeeps(ids, id) == ids

\* Store.untrashEvent: ids.delete(id) when the index has it
untrashIds(ids, id) == IF id \in ids THEN ids \ {id} ELSE ids

\* part_004 Store.trashEvent, then refresh (part_001 message trashEvent)
TrashEvent(id) ==
  /\ store' = [store EXCEPT !.trash = trashIds(@, id),
                            !.view = refreshView(log, trashIds(store.trash, id), store.mode)]
  /\ last' = [op |-> "trash", impl |-> "p004", id |-> id, pre |-> StoreState]
  /\ UNCHANGED << hasCommit, head, disk, session, touched, cpTree, log,
                  snapFiles, nextId, backups, rs, faults >>

\* part_004 Store.untrashEvent, then refresh (message restoreFromTrash)
UntrashEvent(id) ==
  /\ store' = [store EXCEPT !.trash = untrashIds(@, id),
                            !.view = refreshView(log, untrashIds(store.trash, id), store.mode)]
  /\ last' = IF last.op = "trash" /\ last.impl = "p004" /\ last.id = id
             THEN [op |-> "untrash", id |-> id, pre |-> last.pre]
             ELSE [op |-> "untrashOther"]
  /\ UNCHANGED << hasCommit, head, disk, session, touched, cpTree, log,
                  snapFiles, nextId, backups, rs, faults >>

removeLinesKeepsAll(lines, id) == lines

\* lines.filter(l => JSON.parse(l)?.id !== id), a line that does not parse
\* kept; kept.join('\n') + '\n' puts a newline after a cut-short last line
removeLines(lines, id) ==
  LET kept == SelectSeq(lines, LAMBDA l : ~(parses(l) /\ l.id = id))
  IN [i \in 1..Len(kept) |-> IF kept[i] = TornLine THEN GarbledLine ELSE kept[i]]

removeSnapshotsKeeps(snap, id) == snap

\* the snapshot directory of id is removed (deleted or moved away)
removeSnapshots(snap, id) ==
  [k \in SnapKeys |-> IF k[1] = id THEN Absent ELSE snap[k]]

\* exists(snapsDir)
hasSnapshots(snap, id) == \E k \in SnapKeys : k[1] = id /\ snap[k].ex

\* part_002 deleteEventAndAssets (message deleteEvent): snapshots and export
\* are moved to .promptreplay/trash/<stamp>-<id>, the line of the event is
\* taken out of events.jsonl
DeleteEventAndAssets(id) ==
  /\ id \in LogIds
  /\ log' = removeLines(log, id)
  /\ snapFiles' = removeSnapshots(snapFiles, id)
  /\ store' = [store EXCEPT !.exports = @ \ {id},
                            !.view = refreshView(removeLines(log, id), {}, "active")]
  /\ last' = [op |-> "trash", impl |-> "p002", id |-> id, pre |-> StoreState]
  /\ UNCHANGED << hasCommit, head, disk, session, touched, cpTree, nextId,
                  backups, rs, faults >>

\* the four deletions of Store.deleteEventPermanent, in the order of the code
PurgeSteps == {"log", "snapshots", "summary", "exports"}

deleteEventPermanentStops(st, id, failing) ==
  LET reached(step) ==
        CASE step = "log" -> TRUE
          [] step = "snapshots" -> "log" \notin failing
          [] step = "summary" -> failing \cap {"log", "snapshots"} = {}
          [] step = "exports" -> failing \cap {"log", "snapshots", "summary"} = {}
          [] step = "trash" -> failing = {}
      done(step) == reached(step) /\ step \notin failing
  IN [log |-> IF done("log") THEN removeLines(st.log, id) ELSE st.log,
      snap |-> IF done("snapshots") THEN removeSnapshots(st.snap, id) ELSE st.snap,
      summaries |-> IF done("summary") THEN st.store.summaries \ {id}
                    ELSE st.store.summaries,
      exports |-> IF done("exports") THEN st.store.exports \ {id}
                  ELSE st.store.exports,
      trash |-> IF done("trash") THEN untrashIds(st.store.trash, id)
                ELSE st.store.trash]

\* part_004 Store.deleteEventPermanent: each deletion in a try/catch of its
\* own (failing: the ones whose file operation throws), then untrashEvent(id)
deleteEventPermanent(st, id, failing) ==
  [log |-> IF "log" \in failing THEN st.log ELSE removeLines(st.log, id),
   snap |-> IF "snapshots" \in failing THEN st.snap
            ELSE removeSnapshots(st.snap, id),
   summaries |-> IF "summary" \in failing THEN st.store.summaries
                 ELSE st.store.summaries \ {id},
   exports |-> IF "exports" \in failing THEN st.store.exports
               ELSE st.store.exports \ {id},
   trash |-> untrashIds(st.store.trash, id)]

\* message deletePermanent, confirmed with 'Delete': deleteEventPermanent,
\* then refresh
DeletePermanent(id, failing) ==
  /\ Cardinality(failing) <= MaxFaults - faults
  /\ LET r == deleteEventPermanent(StoreState, id, failing)
     IN /\ log' = r.log
        /\ snapFiles' = r.snap
        /\ store' = [store EXCEPT !.summaries = r.summaries,
                                  !.exports = r.exports,
                                  !.trash = r.trash,
                                  !.view = refreshView(r.log, r.trash, store.mode),
                                  !.purged = IF "log" \in failing THEN @
                                             ELSE @ \cup {id}]
  /\ faults' = faults + Cardinality(failing)
  /\ last' = [op |-> "purge", id |-> id, failing |-> failing, pre |-> StoreState]
  /\ UNCHANGED << hasCommit, head, disk, session, touched, cpTree, nextId,
                  backups, rs >>

\* the log: events appended, trimmed, cut short by a failing write, and read
\* for the timeline panel
StoreNext ==
  \/ \E changes \in collectWorkingDiff, m \in MaxEventsValues :
       nextId <= MaxStoreBuilds /\ StoreLogPrompt(changes, m)
  \/ \E changes \in collectWorkingDiff :
       nextId <= MaxStoreBuilds /\ StoreLogPromptTorn(changes)
  \/ \E mode \in {"active", "trash"} : SwitchMode(mode)
  \/ \E id \in LogIds : TrashEvent(id)
  \/ \E id \in store.trash : UntrashEvent(id)
  \/ \E id \in LogIds : DeletePermanent(id, {})

StoreSpec == InitStore /\ [][StoreNext]_vars

Min(x, y) == IF x < y THEN x ELSE y

\* C11: appendEvent on a log of n whole lines leaves the newest
\* min(n + 1, maxEvents) entries of the old log followed by ev, in their
\* order; on a log of exactly maxEvents events it drops exactly the oldest
C11_RetentionTrim ==
  (last.op = "logPrompt"
     /\ \A i \in 1..Len(last.preLog) : parses(last.preLog[i])) =>
    LET all == last.preLog \o << last.ev >>
        keep == Min(Len(last.preLog) + 1, last.maxEvents)
    IN /\ Len(log) = keep
       /\ \A i \in 1..keep : log[i] = all[Len(all) - keep + i]
       /\ log[Len(log)] = last.ev
       /\ Len(last.preLog) = last.maxEvents =>
            log = Tail(last.preLog) \o << last.ev >>

\* an event was appended to a log that held exactly maxEvents events, two
\* of them
C11_Witness ==
  /\ last.op = "logPrompt"
  /\ Len(last.preLog) = last.maxEvents
  /\ last.maxEvents = 2
  /\ \A i \in 1..Len(last.preLog) : parses(last.preLog[i])
  /\ log = << last.preLog[2], last.ev >>

\* C12: readEvents returns every event of the lines that parse, in order,
\* whatever lines that do not parse the log holds besides
C12_ReadSkipsBadLines == readEvents(log) = SelectSeq(log, parses)

\* C13: trashing an event changes only the trash index: the event log, the
\* snapshot subtree of the event, its summary and its export are what they
\* were, and readEvents still returns the event.
C13_TrashOnlyIndex ==
  (last.op = "trash" /\ last.id \in {e.id : e \in Range(readEvents(last.pre.log))}) =>
    /\ log = last.pre.log
    /\ \A k \in SnapKeys : k[1] = last.id => snapFiles[k] = last.pre.snap[k]
    /\ (last.id \in store.summaries) = (last.id \in last.pre.store.summaries)
    /\ (last.id \in store.exports) = (last.id \in last.pre.store.exports)
    /\ last.id \in LogIds

\* C14: for an event that is not in the trash, trashEvent(id) followed by
\* untrashEvent(id) leaves the log, the snapshots, the summaries and the
\* set of trashed ids as they were, and the active view lists the event
\* again.
C14_TrashUntrashRoundTrip ==
  (last.op = "untrash" /\ last.id \notin last.pre.store.trash) =>
    /\ log = last.pre.log
    /\ snapFiles = last.pre.snap
    /\ store.summaries = last.pre.store.summaries
    /\ store.trash = last.pre.store.trash
    /\ (store.mode = "active" /\ last.id \in LogIds) =>
         \E i \in 1..Len(store.view) : store.view[i] = last.id

C14_Witness ==
  /\ last.op = "untrash"
  /\ last.id \notin last.pre.store.trash
  /\ last.pre.store.trash # {}
  /\ last.id \in last.pre.store.summaries
  /\ hasSnapshots(snapFiles, last.id)
  /\ store.mode = "active"
  /\ \E i \in 1..Len(store.view) : store.view[i] = last.id

\* message restoreAll of part_001 sent from the timeline panel: the event
\* is looked up in what readEvents returns and restored, or is not found
TrashRestore(id, reqSide) ==
  /\ IF id \in LogIds
     THEN LET ev == findEvent(id)
              run == restoreLoopP001(ev, ev.diffUris, sideP001(reqSide), disk, << >>)
          IN /\ disk' = run.disk
             /\ last' = [op |-> "restore", id |-> id,
                         outcome |-> IF ev.diffUris = << >> THEN "noTargets"
                                     ELSE "complete"]
     ELSE /\ disk' = disk
          /\ last' = [op |-> "restore", id |-> id, outcome |-> "notFound"]
  /\ UNCHANGED << store, hasCommit, head, session, touched, cpTree, log,
                  snapFiles, nextId, backups, rs, faults >>

\* the timeline panel's trash, restore-from-trash and delete messages over a
\* log of up to MaxTrashBuilds events
TrashNext ==
  \/ \E changes \in TrashChanges :
       nextId <= MaxTrashBuilds /\ StoreLogPrompt(changes, MaxEventsCfg)
  \/ \E changes \in TrashChanges :
       nextId <= MaxTrashBuilds /\ StoreLogPromptTorn(changes)
  \/ \E mode \in {"active", "trash"} : SwitchMode(mode)
  \/ \E id \in KnownIds : Summarize(id)
  \/ \E id \in KnownIds : ExportEvent(id)
  \/ \E id \in KnownIds : TrashEvent(id)
  \/ \E id \in KnownIds : UntrashEvent(id)
  \/ \E id \in KnownIds : DeleteEventAndAssets(id)
  \/ \E id \in KnownIds, failing \in SUBSET PurgeSteps : DeletePermanent(id, failing)
  \/ \E id \in KnownIds, side \in ReqSides : TrashRestore(id, side)

TrashSpec == InitStore /\ [][TrashNext]_vars

\* the line of event id is in lines
hasLine(lines, id) == \E i \in 1..Len(lines) : parses(lines[i]) /\ lines[i].id = id

\* C15: after deleteEventPermanent(id) with no I/O failure no line of the
\* log has the id, the snapshot subtree, the summary and the export of the
\* id do not exist, and the id is not in the trash index.
C15_PurgeRemovesAll ==
  (last.op = "purge" /\ last.failing = {}) =>
    /\ ~hasLine(log, last.id)
    /\ ~hasSnapshots(snapFiles, last.id)
    /\ last.id \notin store.summaries
    /\ last.id \notin store.exports
    /\ last.id \notin store.trash

C15_Witness ==
  /\ last.op = "purge"
  /\ last.failing = {}
  /\ hasLine(last.pre.log, last.id)
  /\ hasSnapshots(last.pre.snap, last.id)
  /\ last.id \in last.pre.store.summaries
  /\ last.id \in last.pre.store.exports
  /\ last.id \in last.pre.store.trash
  /\ Len(log) = Len(last.pre.log) - 1

\* C16: in deleteEventPermanent a failure of one of the log rewrite, the
\* snapshot deletion, the summary deletion and the export deletion does not
\* stop the operation: each deletion that did not fail has taken place and
\* the id is out of the trash index.
C16_PurgeBestEffort ==
  last.op = "purge" =>
    /\ "log" \notin last.failing => ~hasLine(log, last.id)
    /\ "snapshots" \notin last.failing => ~hasSnapshots(snapFiles, last.id)
    /\ "summary" \notin last.failing => last.id \notin store.summaries
    /\ "exports" \notin last.failing => last.id \notin store.exports
    /\ last.id \notin store.trash

C16_Witness ==
  /\ last.op = "purge"
  /\ last.failing = {"log"}
  /\ hasLine(log, last.id)
  /\ hasSnapshots(last.pre.snap, last.id)
  /\ ~hasSnapshots(snapFiles, last.id)
  /\ last.id \in last.pre.store.summaries
  /\ last.id \notin store.summaries
  /\ last.id \in last.pre.store.exports
  /\ last.id \notin store.exports
  /\ last.id \in last.pre.store.trash
  /\ last.id \notin store.trash

(* ------------------ the capture commands on their own ------------------ *)

\* the situation a logPrompt command begins in: a checkpoint pending and no
\* file touched, a checkpoint pending and no changed file among the touched
\* ones, no checkpoint and no change in the working tree, or something to log
situation(changes) ==
  IF session.cp # "none"
  THEN (IF touched = {} THEN "untouched"
        ELSE IF touched \cap Range(changes) = {} THEN "disjoint"
        ELSE "changes")
  ELSE (IF changes = << >> THEN "clean" ELSE "changes")

\* (history) the situation the last logPrompt command began in
LogPromptRecord(changes) ==
  [op |-> "logPrompt", found |-> situation(changes),
   mode |-> IF session.cp # "none" THEN "checkpoint" ELSE "workingTree",
   changedUntouched |-> Range(changes) \ touched,
   touchedUnchanged |-> touched \ Range(changes)]

\* command promptReplay.logPrompt of extension.ts, every file-system call
\* succeeding
CaptureLogPrompt(changes) ==
  /\ logPromptRun(changes, MaxEventsCfg)
  /\ last' = LogPromptRecord(changes)
  /\ UNCHANGED << store, hasCommit, head, disk, backups, rs, faults >>

\* the snapshots logPrompt of extension.ts has written when the snapshot
\* loop throws at file k: both sides of the files before it, and the
\* before side of file k unless its write is what failed
partialSnapshots(id, diffs, k, stage) ==
  LET before == writeSnapshots(id, SubSeq(diffs, 1, k - 1))
  IN [key \in SnapKeys |->
        IF stage # "left" /\ key = << id, "__before__", diffs[k] >>
        THEN File(leftSnapBytes(diffs[k]))
        ELSE before[key]]

\* logPrompt of extension.ts, one call of the snapshot loop throwing: the
\* writeFile of the before snapshot, the readFile of the working file or the
\* writeFile of the after snapshot. Nothing catches it: the command ends
\* before ev.diffUris is built
CaptureLogPromptFails(changes, k, stage) ==
  /\ CanFail
  /\ diffsToLog(changes) # << >>
  /\ k \in 1..Len(diffsToLog(changes))
  /\ stage = "read" => disk[diffsToLog(changes)[k]].ex
  /\ snapFiles' = partialSnapshots(nextId, diffsToLog(changes), k, stage)
  /\ nextId' = nextId + 1
  /\ faults' = faults + 1
  /\ last' = [op |-> "logPromptFailed", impl |-> "ext"]
  /\ UNCHANGED << store, hasCommit, head, disk, session, touched, cpTree, log,
                  backups, rs >>

\* part_001, a checkpoint pending, the try block of file k throwing at its
\* first write: the catch swallows it, the file keeps the diff adapter's
\* locations, the event is appended
CaptureLogPromptP001Fails(changes, k) ==
  /\ CanFail
  /\ session.cp # "none"
  /\ diffsToLog(changes) # << >>
  /\ k \in 1..Len(diffsToLog(changes))
  /\ LET diffs == diffsToLog(changes)
         failed == diffs[k]
         written == writeSnapshotsP001(nextId, diffs)
         uris == buildDiffUrisP001(nextId, diffs)
     IN /\ snapFiles' = [key \in SnapKeys |->
                           IF key[1] = nextId /\ key[3] = failed
                           THEN snapFiles[key] ELSE written[key]]
        /\ log' = appendEvent(log,
                     [id |-> nextId, beforeRef |-> session.cp,
                      filesChanged |-> diffs,
                      diffUris |-> [i \in 1..Len(diffs) |->
                                     IF diffs[i] = failed
                                     THEN [uris[i] EXCEPT !.left = WorkLoc(failed),
                                                          !.right = WorkLoc(failed)]
                                     ELSE uris[i]],
                      builder |-> "p001",
                      cpAt |-> historyOf(cpTree, diffs),
                      diskAt |-> historyOf(disk, diffs)],
                     MaxEventsCfg)
  /\ touched' = {}
  /\ session' = clearCheckpoint(session)
  /\ cpTree' = EmptyTree
  /\ nextId' = nextId + 1
  /\ faults' = faults + 1
  /\ last' = [op |-> "logPromptFailed", impl |-> "p001"]
  /\ UNCHANGED << store, hasCommit, head, disk, backups, rs >>

\* (history) the last change notification: the document and what it
\* changed to
EditRecord(p, scheme, c) ==
  [op |-> "edit", path |-> p, scheme |-> scheme, to |-> c]

\* a text document of scheme file changes
CaptureEdit(p, c) ==
  /\ editDocumentRun(p, c)
  /\ last' = EditRecord(p, "file", c)

\* a document that is no file changes (untitled, a git: or output: document)
CaptureEditOther(p, scheme) ==
  /\ touched' = editListener(p, scheme)
  /\ last' = EditRecord(p, scheme, EmptyBytes)
  /\ UNCHANGED << store, hasCommit, head, disk, session, cpTree, log, snapFiles,
                  nextId, backups, rs, faults >>

\* (history) the last checkpoint: the files edited before it, and a tick
\* that tells two checkpoints in a row apart
CheckpointRecord ==
  [op |-> "checkpoint", before |-> touched,
   tick |-> IF last.op = "checkpoint" THEN 1 - last.tick ELSE 0]

CaptureCheckpoint ==
  /\ createCheckpointRun
  /\ last' = CheckpointRecord

CaptureNext ==
  \/ \E p \in Paths : \E c \in UserContents(p) : CaptureEdit(p, c)
  \/ \E p \in Paths, scheme \in {"untitled", "git"} : CaptureEditOther(p, scheme)
  \/ \E p \in Paths : \E f \in {Absent} \cup {File(c) : c \in UserContents(p)} :
       ExternalChange(p, f)
  \/ nextId <= MaxCaptureBuilds /\ startSession
  \/ nextId <= MaxCaptureBuilds /\ CaptureCheckpoint
  \/ \E changes \in collectWorkingDiff :
       /\ nextId <= MaxCaptureBuilds \/ diffsToLog(changes) = << >>
       /\ CaptureLogPrompt(changes)
  \/ \E changes \in collectWorkingDiff, k \in 1..(2 * MaxDiffs),
        stage \in {"left", "read", "right"} :
       nextId <= MaxCaptureBuilds /\ CaptureLogPromptFails(changes, k, stage)
  \/ \E changes \in collectWorkingDiff, k \in 1..(2 * MaxDiffs) :
       nextId <= MaxCaptureBuilds /\ CaptureLogPromptP001Fails(changes, k)

CaptureSpec == Init /\ [][CaptureNext]_vars

\* C17: a logPrompt that finds nothing to log (a checkpoint pending and the
\* touched set empty or disjoint from the changes, or no checkpoint and no
\* change in the working tree) writes no snapshot, hands out no event id,
\* appends no event and leaves the session and the touched set as they were.
C17_NothingToLogNoEffect ==
  [][(last'.op = "logPrompt" /\ last'.found # "changes" /\ last' # last) =>
       UNCHANGED << log, snapFiles, nextId, session, touched >>]_vars

C17_Witness ==
  /\ last.op = "logPrompt"
  /\ last.found = "disjoint"
  /\ session.cp # "none"
  /\ touched # {}
  /\ ChangedPaths # {}
  /\ touched \cap ChangedPaths = {}
  /\ log = << >>
  /\ nextId = 1

\* C18: when a snapshot operation of one file fails during logPrompt, the
\* failure is swallowed: the event is appended all the same, the touched set
\* and the checkpoint are cleared.
C18_SnapshotFailureSwallowed ==
  [][(last'.op = "logPromptFailed" /\ faults' # faults) =>
       /\ Len(log') = Len(log) + 1
       /\ log'[Len(log')].id = nextId
       /\ touched' = {}
       /\ session'.cp = "none"]_vars

\* C19: a logPrompt that appends an event leaves the touched set empty and
\* the session without checkpoint, and nothing but createCheckpoint sets a
\* checkpoint again: a following logPrompt runs in no-checkpoint mode.
C19_LogClearsCheckpoint ==
  [][/\ log' # log => (touched' = {} /\ session'.cp = "none")
     /\ (session.cp = "none" /\ session'.cp # "none") =>
          (log' = log /\ last'.op = "checkpoint" /\ session'.cp = checkpointToken)
     /\ (last'.op = "logPrompt" /\ last' # last /\ session.cp = "none") =>
          last'.mode = "workingTree"]_vars

C19_Witness ==
  /\ Len(log) = 1
  /\ log[1].beforeRef # "none"
  /\ last.op = "logPrompt"
  /\ last.found = "clean"
  /\ last.mode = "workingTree"
  /\ touched = {}
  /\ session.cp = "none"

\* C20: the paths of diffUris of a persisted event are pairwise different.
C20_UniquePaths ==
  \A i \in 1..Len(log) :
    parses(log[i]) =>
      NoDup([j \in 1..Len(log[i].diffUris) |-> log[i].diffUris[j].path])

\* C21: in every event of the log filesChanged and diffUris have the same
\* length.
C21_SameLength ==
  \A i \in 1..Len(log) :
    parses(log[i]) => Len(log[i].filesChanged) = Len(log[i].diffUris)

C21_Witness ==
  \E i \in 1..Len(log) :
    /\ parses(log[i])
    /\ log[i].builder = "ext"
    /\ Len(log[i].filesChanged) = 2
    /\ Len(log[i].diffUris) = 2
    /\ log[i].filesChanged[1] = log[i].filesChanged[2]

\* C22: with a checkpoint pending, the event logPrompt builds records
\* exactly the working-tree changes that are in the touched set: a changed
\* file that was not touched is left out, and so is a touched file that is
\* no working-tree change.
C22_TouchedChangesOnly ==
  [][(log' # log /\ session.cp # "none") =>
       LET ev == log'[Len(log')]
       IN /\ Range(ev.filesChanged) = touched \cap ChangedPaths
          /\ {ev.diffUris[j].path : j \in 1..Len(ev.diffUris)} = touched \cap ChangedPaths]_vars

C22_Witness ==
  /\ last.op = "logPrompt"
  /\ last.found = "changes"
  /\ last.mode = "checkpoint"
  /\ last.changedUntouched = {"b"}
  /\ Len(log) = 1
  /\ log[1].filesChanged = << "a" >>
  /\ log[1].beforeRef # "none"

\* C23: in every event logPrompt has appended, the left location of each
\* diffUris entry is the file of its path under snapshots/<id>/__before__
\* and the right location the one under snapshots/<id>/__after__; no entry
\* points at a working-tree or version-control location.
C23_SnapshotLocations ==
  \A i \in 1..Len(log) :
    parses(log[i]) =>
      \A j \in 1..Len(log[i].diffUris) :
        LET u == log[i].diffUris[j]
        IN /\ u.left = SnapLoc(log[i].id, "__before__", u.path)
           /\ u.right = SnapLoc(log[i].id, "__after__", u.path)

WholeEventImpls == {"ext", "p003", "p002"}

\* C24: in the apply phase of a whole-event restore a failed write, read or
\* delete of one target does not stop the loop: when the summary is shown
\* every target has been processed, in order, and each is in one of the
\* counts.
C24_ApplyContinues ==
  (InRestore /\ rs.impl \in WholeEventImpls) =>
    /\ rs.pc = "apply" => Len(rs.acts) = rs.i - 1
    /\ rs.pc = "summary" =>
         /\ Len(rs.acts) = Len(rs.targets)
         /\ \A k \in 1..Len(rs.targets) : rs.acts[k].path = rs.targets[k].path
         /\ rs.restored + rs.deleted + rs.skipped + rs.errors = Len(rs.targets)
         /\ rs.msg = "restore summary"

C24_Witness ==
  /\ InRestore
  /\ rs.impl = "ext"
  /\ rs.pc = "summary"
  /\ rs.ioFailed
  /\ Len(rs.targets) = 2
  /\ rs.acts[1].kind = "errors"
  /\ rs.acts[2].kind = "restored"
  /\ rs.errors = 1
  /\ rs.restored = 1

\* C25: in the restore summary a target whose snapshot cannot be read, or
\* whose snapshot location fails the path check, is counted in skipped, and
\* a target whose working-tree write or delete fails is counted in errors.
C25_SkippedAndErrors ==
  [][(InRestore /\ rs.pc = "apply") =>
       LET dec == applyDecision(rs.impl, rs.targets[rs.i], rs.side, rs.id)
           src == readLoc(dec.from)
           failed == faults' # faults
       IN /\ dec.act = "skip" => rs'.skipped = rs.skipped + 1
          /\ (dec.act = "write" /\ ~src.ex) => rs'.skipped = rs.skipped + 1
          /\ (dec.act = "delete" /\ failed) => rs'.errors = rs.errors + 1
          /\ (dec.act = "write" /\ src.ex /\ failed) =>
               \/ rs'.skipped = rs.skipped + 1
               \/ rs'.errors = rs.errors + 1]_vars

\* C26: purge is terminal and valid from both visibility states: after
\* deleteEventPermanent(id) has rewritten the log, whether or not the id was
\* in the trash index, readEvents returns no event with that id and a
\* restore of that id reports not found, whatever trash, untrash, purge and
\* restore operations follow.
C26_PurgeTerminal ==
  /\ \A id \in store.purged :
       /\ id \notin LogIds
       /\ ~hasLine(log, id)
       /\ \A i \in 1..Len(store.view) : store.view[i] # id
       /\ (last.op = "restore" /\ last.id = id) => last.outcome = "notFound"
  /\ (last.op = "purge" /\ "log" \notin last.failing) => last.id \in store.purged

C26_Witness ==
  /\ Cardinality(store.purged) = 2
  /\ \E id \in store.purged : id \in store.trash
  /\ last.op = "restore"
  /\ last.id \in store.purged
  /\ last.outcome = "notFound"

(* --------- restoring the before side: part_003 and part_001 ----------- *)

\* events are logged by either logPrompt and restored by the handler of
\* part_003 or by the one of part_001, every file-system call succeeding
SideNext ==
  \/ \E p \in Paths : \E c \in UserContents(p) : EditDocument(p, c)
  \/ \E p \in Paths : \E f \in {Absent} \cup {File(c) : c \in UserContents(p)} :
       ExternalChange(p, f)
  \/ nextId <= MaxBuilds /\ startSession
  \/ nextId <= MaxBuilds /\ createCheckpoint
  \/ \E changes \in collectWorkingDiff : LogPrompt(changes)
  \/ \E changes \in collectWorkingDiff : LogPromptP001(changes)
  \/ \E id \in ReqIds, side \in ReqSides, p \in Paths : RestoreBegin("p003", id, side, p)
  \/ BackupStep
  \/ ManifestStep
  \/ ApplyStep
  \/ Dismiss
  \/ \E id \in ReqIds, type \in {"restoreFile", "restoreAll"}, side \in ReqSides,
        p \in Paths : RestoreP001(id, type, side, p)
  \/ \E id \in ReqIds, p \in Paths : RestoreP001NoTargets(id, p)
  \/ Finish

SideSpec == Init /\ [][SideNext]_vars

\* C27: restoring side before a file whose op is modified and whose before
\* snapshot has zero bytes writes the empty file and does not delete it: the
\* choice between delete and write follows the recorded op, not the size of
\* the snapshot.
C27_EmptyBeforeIsWritten ==
  (InRestore /\ rs.side = "before" /\ rs.impl \in {"p003", "p001"}) =>
    \A k \in 1..Len(rs.acts) :
      (/\ rs.acts[k].op = "modified"
       /\ snapFiles[<< rs.id, "__before__", rs.acts[k].path >>] = File(EmptyBytes)) =>
        rs.acts[k].kind = "restored"

\* C28: an edit notification adds the path of the edited document to the
\* touched set exactly when a checkpoint is pending and the document is a
\* file-scheme document; otherwise the touched set is left as it was.
C28_EditTracking ==
  [][(last'.op = "edit" /\ last' # last) =>
       touched' = IF session.cp # "none" /\ last'.scheme = "file"
                  THEN touched \cup {last'.path}
                  ELSE touched]_vars

C28_Witness ==
  /\ last.op = "edit"
  /\ last.scheme = "file"
  /\ last.path = "b"
  /\ session.cp # "none"
  /\ touched = {"a", "b"}
  /\ log = << >>

\* C29: createCheckpoint sets the session's checkpoint to the current
\* revision, or to a working token when there is none, and leaves the
\* touched set empty; as long as the checkpoint is pending and no edit
\* notification follows, logPrompt records no event, whatever was edited
\* before the checkpoint.
C29_CheckpointClearsTouched ==
  [][/\ (last'.op = "checkpoint" /\ last' # last) =>
          /\ session'.cp = (IF hasCommit THEN "sha" ELSE "working")
          /\ session'.active
          /\ touched' = {}
     /\ (last.op = "checkpoint" /\ session.cp # "none") =>
          (touched = {} /\ log' = log)]_vars

C29_Witness ==
  /\ last.op = "checkpoint"
  /\ last.before = {"a", "b"}
  /\ session.cp # "none"
  /\ touched = {}
  /\ \E changes \in collectWorkingDiff : Range(changes) = {"a", "b"}

\* C30: a restore whose confirmation the user declines creates no backup
\* directory, writes no manifest, and writes or deletes no working-tree
\* file.
C30_DeclinedNoMutation ==
  (InRestore /\ rs.outcome = "declined") =>
    /\ Len(backups) < rs.bk
    /\ rs.manifest = << >>
    /\ rs.acts = << >>
    /\ disk = rs.pre
    /\ ~rs.mutated

\* the restore of a whole event of two files, whose working copies differ
\* from the recorded after state, is declined
C30_Witness ==
  /\ InRestore /\ rs.outcome = "declined"
  /\ rs.impl = "ext"
  /\ rs.id \in LogIds
  /\ Len(findEvent(rs.id).diffUris) = 2
  /\ disk # findEvent(rs.id).diskAt

(* ------------ recorded paths that lie under .promptreplay ------------- *)

\* number of events logPrompt may build in one behaviour of the
\* specification with the log among the changed files
MaxInternalBuilds == 2

\* the repo-relative path .promptreplay/events.jsonl
LogFile == "log"

\* collectWorkingDiff in a repository that may or may not ignore
\* .promptreplay: once events.jsonl holds a line it is a changed file like
\* any other, asRelativePath(c.uri) is pushed without any filter
collectWorkingDiffAll ==
  LET base == {s \in collectWorkingDiff : NoDup(s)}
  IN base \cup (IF log # << >> THEN {Append(s, LogFile) : s \in base} ELSE {})

\* the diffUris entry of events.jsonl: no checkpoint is pending, so there is
\* no left text and the file, which exists, is classified as added
logFileEntry(id) ==
  [path |-> LogFile,
   left |-> SnapLoc(id, "__before__", LogFile),
   right |-> SnapLoc(id, "__after__", LogFile),
   op |-> "added"]

workPaths(diffs) == SelectSeq(diffs, LAMBDA p : p \in Paths)

\* the event logPrompt builds from a change list that may name events.jsonl;
\* logAt stands for the __after__ snapshot of events.jsonl, which is copied
\* before the event is appended (the snapshot area of the model holds
\* working-tree paths only)
buildEventAll(diffs) ==
  [id |-> nextId, beforeRef |-> session.cp,
   filesChanged |-> diffs,
   diffUris |-> buildDiffUris(nextId, workPaths(diffs)) \o
                (IF LogFile \in Range(diffs) THEN << logFileEntry(nextId) >> ELSE << >>),
   builder |-> "ext",
   cpAt |-> historyOf(cpTree, workPaths(diffs)),
   diskAt |-> historyOf(disk, workPaths(diffs)),
   logAt |-> log]

\* logPrompt without a pending checkpoint, every file-system call succeeding
InternalLogPrompt(changes) ==
  /\ rs.pc = "idle"
  /\ Horizon
  /\ nextId <= MaxInternalBuilds
  /\ session.cp = "none"
  /\ changes # << >>
  /\ snapFiles' = writeSnapshots(nextId, workPaths(changes))
  /\ log' = appendEvent(log, buildEventAll(changes), MaxEventsCfg)
  /\ touched' = {}
  /\ session' = clearCheckpoint(session)
  /\ cpTree' = EmptyTree
  /\ nextId' = nextId + 1
  /\ UNCHANGED << store, last, hasCommit, head, disk, backups, rs, faults >>

\* events.jsonl after one iteration of the apply loop whose target it is:
\* target = path.join(root, rel), written from the snapshot or deleted
logAfterApply(ev, dec) ==
  IF dec.act = "delete" THEN << >>
  ELSE IF dec.act = "write"
  THEN (IF dec.from.sub = "__after__" THEN ev.logAt ELSE << >>)
  ELSE log

\* a whole-event restore from the confirmation to the summary, every
\* file-system call succeeding: backup loop, manifest, apply loop.  The
\* backup copy of events.jsonl is kept in the history record.
InternalRestore(impl, id, reqSide) ==
  /\ rs.pc = "idle"
  /\ Horizon
  /\ id \in LogIds
  /\ LET ev == findEvent(id)
         targets == ev.diffUris
         side == effectiveSide(impl, reqSide)
         r(k) == [impl |-> impl, side |-> side, id |-> id, targets |-> targets, i |-> k]
         ks(p) == {k \in 1..Len(targets) : targets[k].path = p}
         existed(p) == IF p = LogFile THEN log # << >> ELSE disk[p].ex
     IN /\ targets # << >>
        /\ backups' = Append(backups,
             [files |-> [p \in Paths |-> IF ks(p) # {} THEN disk[p] ELSE Absent],
              manifest |-> [written |-> TRUE,
                            entries |-> [k \in 1..Len(targets) |->
                                           [path |-> targets[k].path,
                                            existed |-> existed(targets[k].path)]]]])
        /\ disk' = [p \in Paths |->
                      IF ks(p) = {} THEN disk[p]
                      ELSE applyOutcome(r(CHOOSE k \in ks(p) : TRUE), "none").file]
        /\ log' = IF ks(LogFile) = {} THEN log
                  ELSE logAfterApply(ev, applyDecision(impl,
                         targets[CHOOSE k \in ks(LogFile) : TRUE], side, id))
        /\ last' = [op |-> "restore", impl |-> impl, id |-> id, side |-> side,
                    logBackup |-> log]
  /\ UNCHANGED << store, hasCommit, head, session, touched, cpTree, snapFiles, nextId,
                  rs, faults >>

\* the user chooses Undo at the summary: every manifest entry is written
\* back from its backup copy, or deleted when it did not exist
InternalUndo ==
  /\ rs.pc = "idle"
  /\ last.op = "restore"
  /\ LET m == backups[Len(backups)].manifest.entries
         es(p) == {k \in 1..Len(m) : m[k].path = p}
         was(p) == m[CHOOSE k \in es(p) : TRUE].existed
     IN /\ disk' = [p \in Paths |->
                      IF es(p) = {} THEN disk[p]
                      ELSE IF was(p) THEN backups[Len(backups)].files[p]
                      ELSE Absent]
        /\ log' = IF es(LogFile) = {} THEN log
                  ELSE IF was(LogFile) THEN last.logBackup
                  ELSE << >>
  /\ last' = [last EXCEPT !.op = "undo"]
  /\ UNCHANGED << store, hasCommit, head, session, touched, cpTree, snapFiles, nextId,
                  backups, rs, faults >>

InternalNext ==
  \/ \E p \in Paths : \E c \in UserContents(p) : EditDocument(p, c)
  \/ \E changes \in collectWorkingDiffAll : InternalLogPrompt(changes)
  \/ \E impl \in WholeEventImpls, id \in KnownIds, side \in ReqSides :
       InternalRestore(impl, id, side)
  \/ InternalUndo

InternalSpec == Init /\ [][InternalNext]_vars

\* C31: no restore and no undo changes the event log, the trash index, the
\* session or a file of the snapshot area, whatever path the restored
\* event records.
C31_RestoreLeavesStore ==
  [][(backups' # backups \/ (last.op = "restore" /\ last'.op = "undo")) =>
       /\ log' = log
       /\ store' = store
       /\ session' = session
       /\ snapFiles' = snapFiles]_vars

\* C32: in a whole-event restore every target of the apply loop increments
\* exactly one of restored, deleted, skipped and errors, so after the apply
\* phase their sum is the number of diffUris entries of the event; every
\* manifest entry of the undo loop increments exactly one of uRestored,
\* uDeleted and uErrors, so after the undo their sum is the number of
\* manifest entries.
C32_CountersAddUp ==
  (InRestore /\ rs.impl \in WholeEventImpls) =>
    LET applied == rs.restored + rs.deleted + rs.skipped + rs.errors
        undone == rs.uRestored + rs.uDeleted + rs.uErrors
        entries == backups[rs.bk].manifest.entries
    IN /\ rs.pc = "apply" => applied = rs.i - 1
       /\ (rs.pc \in {"summary", "undo"} \/ rs.outcome \in {"applied", "undone", "undoFailed"}) =>
            applied = Len(RestoredEvent.diffUris)
       /\ rs.pc = "undo" => undone = rs.i - 1
       /\ rs.outcome = "undone" => undone = Len(entries)

\* an undo of two manifest entries has finished with one entry failing,
\* after an apply phase over the two entries of the event
C32_Witness ==
  /\ InRestore /\ rs.impl \in WholeEventImpls
  /\ rs.outcome = "undone"
  /\ Len(RestoredEvent.diffUris) = 2
  /\ Len(backups[rs.bk].manifest.entries) = 2
  /\ rs.uErrors = 1
  /\ rs.uRestored + rs.uDeleted = 1
  /\ rs.restored + rs.deleted + rs.skipped + rs.errors = 2

\* C33: every id in the trash index is the id of an event that is in the
\* log.
C33_TrashIdsInLog == store.trash \subseteq LogIds

(* ------------- a log whose event ids are not UUIDs of one length ------- *)

\* PromptEvent.id is a string, and events.jsonl may hold events that this
\* program did not build.  Here the id of event n is a string of n equal
\* letters, so the id of event 1 is a beginning of the id of event 2.
\* name.startsWith(`event-${id}`) for name = `event-${other}.md`
exportNameStartsWith(other, id) == id <= other

\* an event record as logPrompt writes it, for file a, under a given id
foreignEvent(id) ==
  [id |-> id, beforeRef |-> "none",
   filesChanged |-> << "a" >>,
   diffUris |-> << [path |-> "a",
                    left |-> SnapLoc(id, "__before__", "a"),
                    right |-> SnapLoc(id, "__after__", "a"),
                    op |-> "added"] >>,
   builder |-> "ext",
   cpAt |-> EmptyTree,
   diskAt |-> UntrackedTree]

\* the workspace as the extension finds it: two events in the log, their
\* snapshots in place, no summary or export yet
InitPrefix ==
  /\ hasCommit = FALSE
  /\ head = EmptyTree
  /\ disk = UntrackedTree
  /\ session = NoSession
  /\ touched = {}
  /\ cpTree = EmptyTree
  /\ log = << foreignEvent(1), foreignEvent(2) >>
  /\ snapFiles = [k \in SnapKeys |->
                    IF k[1] \in {1, 2} /\ k[3] = "a" /\ k[2] = "__before__"
                    THEN File(EmptyBytes)
                    ELSE IF k[1] \in {1, 2} /\ k[3] = "a" /\ k[2] = "__after__"
                    THEN File(BinaryBytes)
                    ELSE Absent]
  /\ nextId = 3
  /\ backups = << >>
  /\ rs = IdleRS
  /\ faults = 0
  /\ store = [EmptyStore EXCEPT !.view = << 1, 2 >>]
  /\ last = NoOp

\* part_004 Store.deleteEventPermanent, its exports step deleting every
\* file of the exports directory whose name starts with event-<id>
deleteEventPermanentByName(st, id, failing) ==
  [deleteEventPermanent(st, id, failing) EXCEPT
     !.exports = IF "exports" \in failing THEN st.store.exports
                 ELSE {e \in st.store.exports : ~exportNameStartsWith(e, id)}]

\* message deletePermanent, confirmed with 'Delete'
DeletePermanentByName(id, failing) ==
  /\ Cardinality(failing) <= MaxFaults - faults
  /\ LET r == deleteEventPermanentByName(StoreState, id, failing)
     IN /\ log' = r.log
        /\ snapFiles' = r.snap
        /\ store' = [store EXCEPT !.summaries = r.summaries,
                                  !.exports = r.exports,
                                  !.trash = r.trash,
                                  !.view = refreshView(r.log, r.trash, store.mode),
                                  !.purged = IF "log" \in failing THEN @
                                             ELSE @ \cup {id}]
  /\ faults' = faults + Cardinality(failing)
  /\ last' = [op |-> "purge", id |-> id, failing |-> failing, pre |-> StoreState]
  /\ UNCHANGED << hasCommit, head, disk, session, touched, cpTree, nextId,
                  backups, rs >>

PrefixNext ==
  \/ \E mode \in {"active", "trash"} : SwitchMode(mode)
  \/ \E id \in KnownIds : Summarize(id)
  \/ \E id \in KnownIds : ExportEvent(id)
  \/ \E id \in KnownIds : TrashEvent(id)
  \/ \E id \in KnownIds : UntrashEvent(id)
  \/ \E id \in KnownIds, failing \in SUBSET PurgeSteps : DeletePermanentByName(id, failing)

PrefixSpec == InitPrefix /\ [][PrefixNext]_vars

SessionStart(ws) ==
  /\ IF ws THEN startSession
     ELSE UNCHANGED << store, hasCommit, head, disk, session, touched, cpTree, log,
                       snapFiles, nextId, backups, rs, faults >>
  /\ last' = [op |-> "startSession", ws |-> ws]

\* createCheckpoint without a workspace folder: there is no repository, the
\* token is ':working:<ts>'; the startSession it executes for an inactive
\* session returns early, and { ...store.session, lastCheckpointSha: sha }
\* is stored all the same
createCheckpointNoFolder ==
  /\ rs.pc = "idle"
  /\ session' = [session EXCEPT !.cp = "working"]
  /\ touched' = clearTouched
  /\ cpTree' = disk
  /\ UNCHANGED << store, hasCommit, head, disk, log, snapFiles, nextId, backups, rs,
                  faults >>

SessionCheckpoint(ws) ==
  /\ IF ws THEN createCheckpointRun ELSE createCheckpointNoFolder
  /\ last' = [op |-> "checkpoint", ws |-> ws]

SessionNext ==
  \/ \E p \in Paths : \E c \in UserContents(p) : CaptureEdit(p, c)
  \/ \E ws \in BOOLEAN : SessionStart(ws)
  \/ \E ws \in BOOLEAN : SessionCheckpoint(ws)

SessionSpec == Init /\ [][SessionNext]_vars

\* C35: a pending checkpoint implies an active session that is bound to a
\* repository root.
C35_CheckpointImpliesSession ==
  session.cp # "none" => (session.active /\ session.repoRoot)

(* ------------ Store calls that interleave at their awaits ------------- *)

\* number of events logPrompt may build in one behaviour of the
\* specification of interleaved calls
MaxRaceBuilds == 2

\* commands and panel messages are async functions on one thread: a second
\* one may start while the first is suspended at an await
Slots == {1, 2}
NoCall == [kind |-> "none"]

\* the store with the calls in progress: for each, the step it is suspended
\* at and the buffer it has read
RaceStore ==
  [trash |-> {}, summaries |-> {}, exports |-> {}, mode |-> "active",
   view |-> << >>, purged |-> {}, calls |-> [c \in Slots |-> NoCall]]

\* appended is history: the ids whose appendEvent has returned
InitRace ==
  /\ hasCommit = FALSE
  /\ head = EmptyTree
  /\ disk = UntrackedTree
  /\ session = NoSession
  /\ touched = {}
  /\ cpTree = EmptyTree
  /\ log = << >>
  /\ snapFiles = [k \in SnapKeys |-> Absent]
  /\ nextId = 1
  /\ backups = << >>
  /\ rs = IdleRS
  /\ faults = 0
  /\ store = RaceStore
  /\ last = [op |-> "calls", appended |-> {}]

\* logPrompt up to the readFile of Store.appendEvent: the change list is
\* taken, the snapshots are written, the event is built
AppendBegin(c, changes) ==
  /\ store.calls[c] = NoCall
  /\ nextId <= MaxRaceBuilds
  /\ diffsToLog(changes) # << >>
  /\ snapFiles' = writeSnapshots(nextId, diffsToLog(changes))
  /\ nextId' = nextId + 1
  /\ store' = [store EXCEPT !.calls[c] =
                 [kind |-> "append", pc |-> "read", old |-> << >>,
                  ev |-> buildEvent(diffsToLog(changes))]]
  /\ UNCHANGED << hasCommit, head, disk, session, touched, cpTree, log, backups, rs,
                  faults, last >>

\* old = await readFile(file)
AppendRead(c) ==
  /\ store.calls[c].kind = "append"
  /\ store.calls[c].pc = "read"
  /\ store' = [store EXCEPT !.calls[c].pc = "write", !.calls[c].old = log]
  /\ UNCHANGED << hasCommit, head, disk, session, touched, cpTree, log, snapFiles,
                  nextId, backups, rs, faults, last >>

\* await writeFile(file, old + line, trimmed); back in logPrompt the touched
\* set and the checkpoint are cleared
AppendWrite(c) ==
  /\ store.calls[c].kind = "append"
  /\ store.calls[c].pc = "write"
  /\ log' = appendEvent(store.calls[c].old, store.calls[c].ev, MaxEventsCfg)
  /\ touched' = {}
  /\ session' = clearCheckpoint(session)
  /\ cpTree' = EmptyTree
  /\ store' = [store EXCEPT !.calls[c] = NoCall]
  /\ last' = [last EXCEPT !.appended = @ \cup {store.calls[c].ev.id}]
  /\ UNCHANGED << hasCommit, head, disk, snapFiles, nextId, backups, rs, faults >>

\* message deletePermanent, confirmed: Store.deleteEventPermanent up to its
\* readFile of events.jsonl
PurgeBegin(c, id) ==
  /\ store.calls[c] = NoCall
  /\ id \in LogIds
  /\ store' = [store EXCEPT !.calls[c] =
                 [kind |-> "purge", pc |-> "read", old |-> << >>, id |-> id]]
  /\ UNCHANGED << hasCommit, head, disk, session, touched, cpTree, log, snapFiles,
                  nextId, backups, rs, faults, last >>

\* buf = await readFile(file)
PurgeRead(c) ==
  /\ store.calls[c].kind = "purge"
  /\ store.calls[c].pc = "read"
  /\ store' = [store EXCEPT !.calls[c].pc = "write", !.calls[c].old = log]
  /\ UNCHANGED << hasCommit, head, disk, session, touched, cpTree, log, snapFiles,
                  nextId, backups, rs, faults, last >>

\* await writeFile(file, kept), then the snapshots, the summary and the
\* exports of the id are deleted, the id leaves the trash index, refresh
PurgeWrite(c) ==
  /\ store.calls[c].kind = "purge"
  /\ store.calls[c].pc = "write"
  /\ LET id == store.calls[c].id
         kept == removeLines(store.calls[c].old, id)
     IN /\ log' = kept
        /\ snapFiles' = removeSnapshots(snapFiles, id)
        /\ store' = [store EXCEPT !.calls[c] = NoCall,
                                  !.summaries = @ \ {id},
                                  !.exports = @ \ {id},
                                  !.trash = untrashIds(@, id),
                                  !.view = refreshView(kept, untrashIds(store.trash, id),
                                                       store.mode),
                                  !.purged = @ \cup {id}]
  /\ UNCHANGED << hasCommit, head, disk, session, touched, cpTree, nextId, backups,
                  rs, faults, last >>

RaceNext ==
  \/ \E c \in Slots, changes \in TrashChanges : AppendBegin(c, changes)
  \/ \E c \in Slots : AppendRead(c)
  \/ \E c \in Slots : AppendWrite(c)
  \/ \E c \in Slots, id \in KnownIds : PurgeBegin(c, id)
  \/ \E c \in Slots : PurgeRead(c)
  \/ \E c \in Slots : PurgeWrite(c)

RaceSpec == InitRace /\ [][RaceNext]_vars

\* C36: once every call has returned and no more than maxEvents events were
\* appended, the log holds every appended event that was not purged, and no
\* purged one.
C36_NoLostEvent ==
  ((\A c \in Slots : store.calls[c] = NoCall)
     /\ Cardinality(last.appended) <= MaxEventsCfg) =>
    /\ \A id \in last.appended \ store.purged : hasLine(log, id)
    /\ \A id \in store.purged : ~hasLine(log, id)

(* ------------- edits while logPrompt is suspended on I/O -------------- *)

\* number of events logPrompt may build in one behaviour of the
\* specification of the suspended logPrompt
MaxSuspendBuilds == 1

\* no logPrompt is in progress
NotLogging == [active |-> FALSE, diffs |-> << >>]

\* the store with the logPrompt in progress: the change list it goes on
\* with, filtered before its first file-system call
SuspendStore ==
  [trash |-> {}, summaries |-> {}, exports |-> {}, mode |-> "active",
   view |-> << >>, purged |-> {}, logging |-> NotLogging]

InitSuspend ==
  /\ hasCommit \in BOOLEAN
  /\ head \in (IF hasCommit THEN HeadTrees ELSE {EmptyTree})
  /\ disk = (IF hasCommit THEN head ELSE UntrackedTree)
  /\ session = NoSession
  /\ touched = {}
  /\ cpTree = EmptyTree
  /\ log = << >>
  /\ snapFiles = [k \in SnapKeys |-> Absent]
  /\ nextId = 1
  /\ backups = << >>
  /\ rs = IdleRS
  /\ faults = 0
  /\ store = SuspendStore
  /\ last = NoOp

\* an edit notification; during is history: the paths edited while the
\* logPrompt in progress was suspended
SuspendEdit(p, c) ==
  /\ editDocumentRun(p, c)
  /\ last' = IF store.logging.active THEN [last EXCEPT !.during = @ \cup {p}] ELSE last

\* createCheckpoint, while no logPrompt is in progress
SuspendCheckpoint ==
  /\ ~store.logging.active
  /\ nextId <= MaxSuspendBuilds
  /\ createCheckpoint

\* logPrompt up to its first file-system call: the change list is collected
\* and filtered by the touched set
LogPromptBegin(changes) ==
  /\ ~store.logging.active
  /\ nextId <= MaxSuspendBuilds
  /\ diffsToLog(changes) # << >>
  /\ store' = [store EXCEPT !.logging = [active |-> TRUE, diffs |-> diffsToLog(changes)]]
  /\ last' = [op |-> "logPrompt", during |-> {}, ev |-> NoOp]
  /\ UNCHANGED << hasCommit, head, disk, session, touched, cpTree, log, snapFiles,
                  nextId, backups, rs, faults >>

\* the rest of logPrompt: the snapshots are written, the event is appended,
\* the touched set and the checkpoint are cleared
LogPromptFinish ==
  /\ store.logging.active
  /\ snapFiles' = writeSnapshots(nextId, store.logging.diffs)
  /\ log' = appendEvent(log, buildEvent(store.logging.diffs), MaxEventsCfg)
  /\ touched' = {}
  /\ session' = clearCheckpoint(session)
  /\ cpTree' = EmptyTree
  /\ nextId' = nextId + 1
  /\ store' = [store EXCEPT !.logging = NotLogging]
  /\ last' = [last EXCEPT !.op = "logged", !.ev = buildEvent(store.logging.diffs)]
  /\ UNCHANGED << hasCommit, head, disk, backups, rs, faults >>

SuspendNext ==
  \/ \E p \in Paths : \E c \in UserContents(p) : SuspendEdit(p, c)
  \/ SuspendCheckpoint
  \/ \E changes \in collectWorkingDiff : LogPromptBegin(changes)
  \/ LogPromptFinish

SuspendSpec == InitSuspend /\ [][SuspendNext]_vars

\* C37: a path edited while logPrompt was suspended is, when logPrompt has
\* finished, a path of the event it logged or still in the touched set with
\* the checkpoint pending.
C37_EditNotLost ==
  (last.op = "logged" /\ last.ev.beforeRef # "none") =>
    \A p \in last.during :
      \/ p \in Range(last.ev.filesChanged)
      \/ p \in touched /\ session.cp # "none"

\* C38: a single-file restore of path p writes or deletes no working-tree
\* file other than p, backs up only p, and its undo touches only p; asked
\* for a path that is no diffUris entry of the event it reports that,
\* creates no backup and changes no file.  The writes of the restore are
\* rs.acts and the manifest entries its undo follows; the working tree is
\* compared with its state at the start when no edit came in between.
C38_SingleFileOnly ==
  (InRestore /\ rs.impl \in FileImpls) =>
    /\ rs.outcome = "notPart" =>
         /\ rs.msg = "File not part of this event."
         /\ Len(backups) < rs.bk
         /\ rs.acts = << >>
         /\ rs.interference = 0 => disk = rs.pre
         /\ ~rs.mutated
    /\ rs.targets # << >> =>
         LET p == rs.targets[1].path
         IN /\ Len(rs.targets) = 1
            /\ \A q \in Paths \ {p} :
                 /\ rs.interference = 0 => disk[q] = rs.pre[q]
                 /\ Len(backups) >= rs.bk => ~backups[rs.bk].files[q].ex
            /\ \A k \in 1..Len(rs.manifest) : rs.manifest[k].path = p
            /\ \A k \in 1..Len(rs.acts) : rs.acts[k].path = p
            /\ Len(backups) >= rs.bk =>
                 \A k \in 1..Len(backups[rs.bk].manifest.entries) :
                   backups[rs.bk].manifest.entries[k].path = p

\* one file of an event of two files was restored, which changed it, and
\* the restore was undone
C38_Witness ==
  /\ InRestore /\ rs.impl = "extFile"
  /\ rs.outcome = "undone"
  /\ rs.mutated
  /\ {RestoredEvent.diffUris[k].path : k \in 1..Len(RestoredEvent.diffUris)} = {"a", "b"}
  /\ rs.targets[1].path = "a"
  /\ backups[rs.bk].files["a"].ex
  /\ disk = rs.pre

====
